---------------------------- MODULE Spec2Model ----------------------------
(***************************************************************************)
(* Leader-follower co-simulation (OMNeT++ orchestrator as leader, NS-3     *)
(* adapter as follower) driven by LeaderFollowerSynchronizer, and the      *)
(* orchestrator's threshold-based NFV decision engine.                     *)
(*                                                                         *)
(* Simulated time is counted in integer ticks; the sync interval and the   *)
(* total duration are configuration values fixed at construction.          *)
(* Ratios (cache hit ratio, utilisation) are in percent, latencies in      *)
(* milliseconds.  Vehicle datasets are abstracted to the set of vehicle    *)
(* identifiers they hold.                                                  *)
(*                                                                         *)
(* Threads: the synchronizer thread (pc), the leader's receive loop        *)
(* (leaderPc), the sync manager's communication loop (smPc) and the        *)
(* thread calling stop() (stopPc).  The remote peers (the ndnSIM follower  *)
(* process connected to the leader, the NS-3 process connected to the      *)
(* sync manager) are the environment.                                      *)
(***************************************************************************)
EXTENDS Integers, Sequences, FiniteSets, TLC

\* ------------------------------------------------------------------ bounds
MaxSyncInterval == 2      \* sync intervals 1..MaxSyncInterval ticks
MaxSimulationTime == 2    \* total durations 1..MaxSimulationTime ticks
MaxAccepts == 1           \* peers the leader accepts over one session
MaxOwed == 2              \* time-syncs a peer holds unanswered at a time
MaxMetrics == 2           \* metrics messages the peer sends to the engine
MaxCalls == 4             \* calls of the public inventory operations
MaxFrameCalls == 3        \* calls of the public engine operations, analysis included

\* ------------------------------------------------------- program constants
NoSocket == -1            \* followerSocket_ / clientSocket_ when not connected
FailureThreshold == 5     \* run(): if (performanceMetrics_.failedSteps > 5)
PIT_SCALE_THRESHOLD == 100          \* pending interests
LATENCY_THRESHOLD == 100            \* 0.1 s, in milliseconds
CACHE_EFFICIENCY_THRESHOLD == 50    \* 0.5, in percent
EMERGENCY_LATENCY_THRESHOLD == 50   \* 0.05 s, in milliseconds
ConnectMaxAttempts == 10  \* for (int attempt = 0; attempt < 10; attempt++)
ConnectDelaySeconds == 2  \* sleep(2)

LeaderOwnVehicles == {"vehicle_0"}   \* generated by OMNeTOrchestrator::initialize

VNFTypes == {"NDN_ROUTER", "TRAFFIC_ANALYZER", "SECURITY_VNF", "CACHE_OPTIMIZER"}

VARIABLES
    \* LeaderFollowerSynchronizer
    syncInterval, simulationTime,   \* config_
    currentTime, running, initialized,
    pm,                             \* performanceMetrics_ (step counters)
    pc,                             \* position of the synchronizer thread
    stepSuccess,                    \* run(): bool stepSuccess
    runResult,                      \* value run() returned ("none" before)
    stopPc,                         \* position of the thread calling stop()
    \* history of the run loop (observations, never read by the program)
    consecFailures,                 \* failed steps since the last success
    exitReason,                     \* why the while loop was left
    stopRequested,                  \* stop() has been called
    lastExchange,                   \* datasets read and written by the last exchange
    syncRefused,                    \* the last SyncToTime ended at SendSyncCommand's no-client return
    \* OMNeTOrchestrator (leader)
    lCurrentTime, lRunning, lInitialized,
    serverSocket,                   \* TRUE while the listening socket is open
    followerSocket, followerConnected, syncAckReceived,
    lVehicles, nextTime, leaderPc, acceptCount,
    peerOpen,                       \* remote end of followerSocket_ is open
    peerOwes,                       \* time-syncs delivered to the peer, unanswered
    \* OMNeTOrchestrator, NFV state
    vnfInstances,                   \* vnfInstances_: type -> sequence of instances
    perf,                           \* performanceMetrics_ (decision counters)
    snapshot,                       \* the metrics snapshot the peer reports
    metricsLeft,                    \* metrics messages the peer still sends
    decisions,                      \* list returned by the last analyzeAndDecide
    callsLeft,                      \* executeNFVDecisions calls the driver still makes
    \* history of the engine (observations, never read by the program)
    lastMessage,                    \* form of the last metrics message received
    analysedInventory,              \* vnfInstances_ at the last analyzeAndDecide
    emitted,                        \* decisions analyzeAndDecide has returned, counted
    issuedIds,                      \* instance ids deployVNF has given so far
    \* NS3Adapter + ExternalSyncManager (follower)
    fCurrentTime, fRunning, fInitialized, fVehicles,
    smInitialized, smRunning, smServerSocket, clientSocket, syncPending,
    smCurrentTime, smTargetTime, smPc,
    ns3Open, ns3Owes,
    \* the ns-3 follower script process (the remote peer of the leader)
    connImpl,                       \* which script's connect routine runs
    connPc,                         \* position inside the connect routine
    connAttempts,                   \* connect() calls made so far
    connDelay,                      \* seconds slept between attempts so far
    scriptSocket,                   \* g_clientSocket / leaderSocket_ (>= 0 when open)
    scriptConnected,                \* connected_ / g_clientSocket >= 0
    \* one message on the wire between the script and the leader
    sent,                           \* the message handed to the send routine (<< >>: none)
    wire,                           \* chunks written to the socket, unread
    received,                       \* the message the receive routine returned (<< >>: none)
    \* OMNeTOrchestrator: the handler of one metrics message, step by step
    nfvStateMutex,                  \* nfvStateMutex_: "free" or the thread holding it
    toSend,                         \* decisions of the batch not yet sent to the follower
    commands,                       \* NFV_COMMAND messages sent for the batch, in order
    \* OMNeTOrchestrator::shutdown() against leaderLoop, statement by statement
    shutPc,                         \* position of the thread inside shutdown()
    loopFd,                         \* descriptor leaderLoop read from followerSocket_
    closes,                         \* close() calls made on the accepted descriptor
    usedClosed                      \* the descriptor was passed to recv() after close()

syncVars == <<syncInterval, simulationTime, currentTime, running, initialized,
              pm, pc, stepSuccess, runResult>>
histVars == <<consecFailures, exitReason, lastExchange, syncRefused>>
leaderVars == <<lCurrentTime, lRunning, lInitialized, serverSocket, followerSocket,
                followerConnected, syncAckReceived, lVehicles, nextTime,
                leaderPc, acceptCount, peerOpen, peerOwes>>
followerVars == <<fCurrentTime, fRunning, fInitialized, fVehicles, smInitialized,
                  smRunning, smServerSocket, clientSocket, syncPending,
                  smCurrentTime, smTargetTime, smPc, ns3Open, ns3Owes>>
connVars == <<connImpl, connPc, connAttempts, connDelay, scriptSocket,
              scriptConnected>>
wireVars == <<sent, wire, received>>
scriptVars == <<connVars, wireVars>>
handlerVars == <<nfvStateMutex, toSend, commands>>
closeVars == <<shutPc, loopFd, closes, usedClosed>>
detailVars == <<handlerVars, closeVars>>
engineHist == <<lastMessage, analysedInventory, emitted, issuedIds>>
nfvVars == <<vnfInstances, perf, snapshot, metricsLeft, decisions, callsLeft,
            engineHist>>
vars == <<syncVars, histVars, stopPc, stopRequested, leaderVars, nfvVars,
          followerVars, scriptVars, detailVars>>

\* ------------------------------------------------------------ helpers
Min(a, b) == IF a < b THEN a ELSE b

\* NDNMetrics with every field zero.
ZeroMetrics ==
    [pitSize |-> 0, cacheHitRatio |-> 0, avgLatency |-> 0,
     emergencyMessages |-> 0, networkUtilization |-> 0, timestamp |-> 0]

\* OMNeTOrchestrator::deployVNF: the instance is appended to its type's list,
\* its id built from the type and the list's current size.
deployVNF(inst, type, location) ==
    [inst EXCEPT ![type] = Append(@,
        [instanceId |-> <<type, Len(inst[type])>>, type |-> type,
         location |-> location, isActive |-> TRUE])]

\* The instance ids present in an inventory.
IdsOf(inst) ==
    UNION {{inst[t][i].instanceId : i \in 1..Len(inst[t])} : t \in VNFTypes}

\* The four deployments at the end of OMNeTOrchestrator::initialize.
InitialDeployment(inst) ==
    deployVNF(deployVNF(deployVNF(deployVNF(inst,
        "NDN_ROUTER", "RSU_1"), "TRAFFIC_ANALYZER", "EDGE_1"),
        "SECURITY_VNF", "RSU_1"), "CACHE_OPTIMIZER", "EDGE_1")

\* --------------------------------------------------------------- Init
\* State after the constructors of LeaderFollowerSynchronizer,
\* OMNeTOrchestrator and NS3Adapter (with its ExternalSyncManager).
SynchronizerConstructed ==
    /\ currentTime = 0 /\ running = FALSE /\ initialized = FALSE
    /\ pm = [totalSteps |-> 0, successfulSteps |-> 0, failedSteps |-> 0]
    /\ stepSuccess = FALSE /\ runResult = "none"
    /\ stopPc = "idle"
    /\ consecFailures = 0
    /\ exitReason = "none" /\ stopRequested = FALSE
    /\ syncRefused = FALSE
    /\ lastExchange = [n |-> 0, leaderBefore |-> {}, followerBefore |-> {},
                       leaderAfter |-> {}, followerAfter |-> {}]

LeaderConstructed ==
    /\ lCurrentTime = 0 /\ lRunning = FALSE /\ lInitialized = FALSE
    /\ serverSocket = FALSE /\ followerSocket = NoSocket
    /\ followerConnected = FALSE /\ syncAckReceived = FALSE
    /\ lVehicles = {} /\ nextTime = 0 /\ leaderPc = "none" /\ acceptCount = 0
    /\ peerOpen = FALSE /\ peerOwes = 0
    /\ vnfInstances = [t \in VNFTypes |-> << >>]
    /\ perf = [totalDecisions |-> 0, scalingEvents |-> 0, migrationEvents |-> 0,
               emergencyResponses |-> 0]
    /\ decisions = << >>
    /\ lastMessage = "none"
    /\ analysedInventory = [t \in VNFTypes |-> << >>]
    /\ emitted = [totalDecisions |-> 0, scalingEvents |-> 0, migrationEvents |-> 0,
                  emergencyResponses |-> 0]
    /\ issuedIds = {}

FollowerConstructed ==
    /\ fCurrentTime = 0 /\ fRunning = FALSE /\ fInitialized = FALSE
    /\ fVehicles = {}
    /\ smInitialized = FALSE /\ smRunning = FALSE /\ smServerSocket = FALSE
    /\ clientSocket = NoSocket /\ syncPending = FALSE
    /\ smCurrentTime = 0 /\ smTargetTime = 0 /\ smPc = "none"
    /\ ns3Open = FALSE /\ ns3Owes = 0

\* The follower script before main() calls its connect routine: no socket,
\* nothing sent or received.
ScriptConstructed ==
    /\ connPc = "idle" /\ connAttempts = 0 /\ connDelay = 0
    /\ scriptSocket = NoSocket /\ scriptConnected = FALSE
    /\ sent = << >> /\ wire = << >> /\ received = << >>

\* The leader's NFV state lock is free and no command of a batch is pending;
\* nobody has called OMNeTOrchestrator::shutdown() and the accepted descriptor
\* has not been closed.
DetailConstructed ==
    /\ nfvStateMutex = "free" /\ toSend = << >> /\ commands = << >>
    /\ shutPc = "idle" /\ loopFd = NoSocket /\ closes = 0 /\ usedClosed = FALSE

Constructed ==
    /\ SynchronizerConstructed /\ pc = "idle"
    /\ LeaderConstructed
    /\ FollowerConstructed
    /\ DetailConstructed
    /\ ScriptConstructed /\ connImpl = "CoSimCommunicator"

\* A synchronisation session: any configured interval and duration; the peer
\* reports no metrics.
Init ==
    /\ syncInterval \in 1..MaxSyncInterval
    /\ simulationTime \in 1..MaxSimulationTime
    /\ snapshot = ZeroMetrics /\ metricsLeft = 0 /\ callsLeft = 0
    /\ Constructed

\* ------------------------------------- LeaderFollowerSynchronizer::initialize
\* leader_->initialize(), first part: OMNeTOrchestrator::startAsLeader.
\* socket/bind/listen may fail (initialize returns false); otherwise the
\* receive-loop thread is started while running_ is still false.
InitLeaderStart ==
    /\ pc = "idle" /\ ~initialized /\ runResult = "none" /\ leaderPc = "none"
    /\ stopPc = "idle"
    /\ \/ /\ pc' = "initFailed"
          /\ UNCHANGED leaderVars
       \/ /\ serverSocket' = TRUE
          /\ leaderPc' = "top"
          /\ pc' = "initLeader"
          /\ UNCHANGED <<lCurrentTime, lRunning, lInitialized, followerSocket,
                         followerConnected, syncAckReceived, lVehicles, nextTime,
                         acceptCount, peerOpen, peerOwes>>
    /\ UNCHANGED <<syncInterval, simulationTime, currentTime, running, initialized,
                   pm, stepSuccess, runResult, histVars, scriptVars, detailVars, stopPc, stopRequested,
                   nfvVars, followerVars>>

\* leader_->initialize(), second part: traffic generated, the initial VNFs
\* deployed, running_ and initialized_ set.
InitLeaderFinish ==
    /\ pc = "initLeader"
    /\ lVehicles' = LeaderOwnVehicles
    /\ vnfInstances' = InitialDeployment(vnfInstances)
    /\ issuedIds' = issuedIds \cup IdsOf(vnfInstances')
    /\ lRunning' = TRUE
    /\ lInitialized' = TRUE
    /\ pc' = "initFollower"
    /\ UNCHANGED <<syncInterval, simulationTime, currentTime, running, initialized,
                   pm, stepSuccess, runResult, histVars, scriptVars, detailVars, stopPc, stopRequested,
                   lCurrentTime, serverSocket, followerSocket, followerConnected,
                   syncAckReceived, nextTime, leaderPc, acceptCount, peerOpen,
                   peerOwes, perf, snapshot, metricsLeft, decisions, callsLeft,
                   lastMessage, analysedInventory, emitted, followerVars>>

\* follower_->initialize(): NS3Adapter::initialize.  The sync manager's
\* Initialize (socket/bind/listen) or the start of the NS-3 process may fail.
InitFollower ==
    /\ pc = "initFollower"
    /\ \/ /\ pc' = "initFailed"
          /\ UNCHANGED followerVars
       \/ /\ smServerSocket' = TRUE
          /\ smRunning' = TRUE
          /\ smPc' = "top"
          /\ smInitialized' = TRUE
          /\ ns3Open' = TRUE
          /\ fInitialized' = TRUE
          /\ fRunning' = TRUE
          /\ pc' = "initVerify"
          /\ UNCHANGED <<fCurrentTime, fVehicles, clientSocket, syncPending,
                         smCurrentTime, smTargetTime, ns3Owes>>
    /\ UNCHANGED <<syncInterval, simulationTime, currentTime, running, initialized,
                   pm, stepSuccess, runResult, histVars, scriptVars, detailVars, stopPc, stopRequested,
                   leaderVars, nfvVars>>

\* "Verify both simulators are ready", then initialized_ = true, currentTime_ = 0.
InitVerify ==
    /\ pc = "initVerify"
    /\ IF ~lRunning \/ ~fRunning
       THEN /\ pc' = "initFailed"
            /\ UNCHANGED <<initialized, currentTime>>
       ELSE /\ initialized' = TRUE
            /\ currentTime' = 0
            /\ pc' = "idle"
    /\ UNCHANGED <<syncInterval, simulationTime, running, pm, stepSuccess,
                   runResult, histVars, scriptVars, detailVars, stopPc, stopRequested, leaderVars,
                   nfvVars, followerVars>>

\* --------------------------------------- LeaderFollowerSynchronizer::run
\* A run loop that advances by a fixed tick instead of the configured interval.
AdvanceTimeOneTick(t, interval) == t + 1

\* run(): currentTime_.load() + syncInterval
AdvanceTime(t, interval) == t + interval

\* run(): if (performanceMetrics_.failedSteps > 5)
TooManyFailures(failed) == failed > FailureThreshold

\* run(): if (currentTime_ >= simulationTime) return true; else return false
RunSucceeded(t, total) == t >= total

\* executeTimeStep hands the leader's dataset to follower_->updateVehicleData
\* and the follower's dataset to leader_->updateVehicleData.
GivenToFollower(leaderData, followerData) == leaderData
GivenToLeader(leaderData, followerData) == followerData

\* A failing return of executeTimeStep that leaves failedSteps as it is.
FailStepUncounted ==
    /\ pm' = pm
    /\ stepSuccess' = FALSE
    /\ consecFailures' = consecFailures + 1
    /\ pc' = "post"

\* A failing return of executeTimeStep: failedSteps++, return false.
FailStep ==
    /\ pm' = [pm EXCEPT !.failedSteps = @ + 1]
    /\ stepSuccess' = FALSE
    /\ consecFailures' = consecFailures + 1
    /\ pc' = "post"

\* The loop has been left: running_ = false and the return value.
Return(t, why) ==
    /\ running' = FALSE
    /\ runResult' = RunSucceeded(t, simulationTime)
    /\ exitReason' = why
    /\ pc' = "returned"

\* Entry of run(): refuses an uninitialised synchronizer, else running_ = true.
RunStart ==
    /\ pc \in {"idle", "initFailed"} /\ runResult = "none"
    /\ IF ~initialized
       THEN /\ runResult' = FALSE
            /\ exitReason' = "notInitialized"
            /\ pc' = "returned"
            /\ UNCHANGED running
       ELSE /\ running' = TRUE
            /\ pc' = "loop"
            /\ UNCHANGED <<runResult, exitReason>>
    /\ UNCHANGED <<syncInterval, simulationTime, currentTime, initialized, pm,
                   stepSuccess, consecFailures, lastExchange, syncRefused, scriptVars, detailVars, stopPc,
                   stopRequested, leaderVars, nfvVars, followerVars>>

\* A loop test that leaves the loop only when stopped: once the duration is
\* reached the thread stays in the loop without stepping.
RunLoopCheckIdle ==
    /\ pc = "loop"
    /\ IF running /\ currentTime < simulationTime
       THEN /\ pc' = "leaderSend"
            /\ UNCHANGED <<running, runResult, exitReason>>
       ELSE IF running
            THEN UNCHANGED <<pc, running, runResult, exitReason>>
            ELSE Return(currentTime, "stopped")
    /\ UNCHANGED <<syncInterval, simulationTime, currentTime, initialized, pm,
                   stepSuccess, consecFailures, lastExchange, syncRefused, scriptVars, detailVars, stopPc,
                   stopRequested, leaderVars, nfvVars, followerVars>>

\* while (running_ && currentTime_ < simulationTime)
RunLoopCheck ==
    /\ pc = "loop"
    /\ IF running /\ currentTime < simulationTime
       THEN /\ pc' = "leaderSend"
            /\ UNCHANGED <<running, runResult, exitReason>>
       ELSE Return(currentTime, IF running THEN "duration" ELSE "stopped")
    /\ UNCHANGED <<syncInterval, simulationTime, currentTime, initialized, pm,
                   stepSuccess, consecFailures, lastExchange, syncRefused, scriptVars, detailVars, stopPc,
                   stopRequested, leaderVars, nfvVars, followerVars>>

\* executeTimeStep, step 1: OMNeTOrchestrator::step up to and including
\* sendTimeSyncCommand.  With no follower socket nothing is sent and the
\* command reports success.  A send to a closed peer may report failure.
LeaderStepSend ==
    /\ pc = "leaderSend"
    /\ IF ~(lRunning /\ lInitialized)
       THEN /\ FailStep
            /\ UNCHANGED <<nextTime, syncAckReceived, peerOwes>>
       ELSE /\ nextTime' = lCurrentTime + syncInterval
            /\ IF followerSocket < 0
               THEN /\ pc' = "leaderWait"
                    /\ UNCHANGED <<syncAckReceived, peerOwes, pm, stepSuccess,
                                   consecFailures>>
               ELSE /\ syncAckReceived' = FALSE
                    /\ \/ /\ peerOwes' = IF peerOpen THEN Min(peerOwes + 1, MaxOwed)
                                         ELSE peerOwes
                          /\ pc' = "leaderWait"
                          /\ UNCHANGED <<pm, stepSuccess, consecFailures>>
                       \/ /\ ~peerOpen
                          /\ FailStep
                          /\ UNCHANGED peerOwes
    /\ UNCHANGED <<syncInterval, simulationTime, currentTime, running, initialized,
                   runResult, exitReason, lastExchange, syncRefused, scriptVars, detailVars, stopPc, stopRequested,
                   lCurrentTime, lRunning, lInitialized, serverSocket,
                   followerSocket, followerConnected, lVehicles, leaderPc,
                   acceptCount, peerOpen, nfvVars, followerVars>>

\* The end of a successful OMNeTOrchestrator::step: updatePerformanceMetrics
\* (totalDecisions++) and currentTime_ = nextTime.
LeaderStepDone ==
    /\ lCurrentTime' = nextTime
    /\ perf' = [perf EXCEPT !.totalDecisions = @ + 1]
    /\ pc' = "followerSend"
    /\ UNCHANGED <<pm, stepSuccess, consecFailures>>

\* executeTimeStep, step 1 continued: entry of waitForFollowerAck, which
\* returns true at once when there is no follower socket.
LeaderStepWait ==
    /\ pc = "leaderWait"
    /\ IF followerSocket < 0
       THEN LeaderStepDone
       ELSE /\ pc' = "leaderAck"
            /\ UNCHANGED <<lCurrentTime, perf, pm, stepSuccess, consecFailures>>
    /\ UNCHANGED <<syncInterval, simulationTime, currentTime, running, initialized,
                   runResult, exitReason, lastExchange, syncRefused, scriptVars, detailVars, stopPc, stopRequested,
                   lRunning, lInitialized, serverSocket, followerSocket,
                   followerConnected, syncAckReceived, lVehicles, nextTime,
                   leaderPc, acceptCount, peerOpen, peerOwes, vnfInstances,
                   snapshot, metricsLeft, decisions, callsLeft, engineHist,
                   followerVars>>

\* A leader step that carries on after a missed acknowledgment: the follower's
\* step is invoked although the leader's time has not advanced.
LeaderStepAckCarryOn ==
    /\ pc = "leaderAck"
    /\ IF syncAckReceived
       THEN LeaderStepDone
       ELSE /\ pc' = "followerSend"
            /\ UNCHANGED <<lCurrentTime, perf, pm, stepSuccess, consecFailures>>
    /\ UNCHANGED <<syncInterval, simulationTime, currentTime, running, initialized,
                   runResult, exitReason, lastExchange, syncRefused, scriptVars, detailVars, stopPc, stopRequested,
                   lRunning, lInitialized, serverSocket, followerSocket,
                   followerConnected, syncAckReceived, lVehicles, nextTime,
                   leaderPc, acceptCount, peerOpen, peerOwes, vnfInstances,
                   snapshot, metricsLeft, decisions, callsLeft, engineHist,
                   followerVars>>

\* The wait on syncCondition_ ends: the ack flag is set, or the 5 s timeout
\* passes with the flag still clear and step returns false.
LeaderStepAck ==
    /\ pc = "leaderAck"
    /\ IF syncAckReceived
       THEN LeaderStepDone
       ELSE /\ FailStep
            /\ UNCHANGED <<lCurrentTime, perf>>
    /\ UNCHANGED <<syncInterval, simulationTime, currentTime, running, initialized,
                   runResult, exitReason, lastExchange, syncRefused, scriptVars, detailVars, stopPc, stopRequested,
                   lRunning, lInitialized, serverSocket, followerSocket,
                   followerConnected, syncAckReceived, lVehicles, nextTime,
                   leaderPc, acceptCount, peerOpen, peerOwes, vnfInstances,
                   snapshot, metricsLeft, decisions, callsLeft, engineHist,
                   followerVars>>

\* A follower step whose SendSyncCommand sends without looking at the client
\* socket.
FollowerStepSendUnchecked ==
    /\ pc = "followerSend"
    /\ IF ~(fRunning /\ fInitialized) \/ ~smInitialized
       THEN /\ FailStep
            /\ syncRefused' = FALSE
            /\ UNCHANGED <<smTargetTime, syncPending, ns3Owes>>
       ELSE /\ smTargetTime' = fCurrentTime + syncInterval
            /\ syncPending' = TRUE
            /\ syncRefused' = (clientSocket < 0)
            /\ \/ /\ ns3Owes' = IF ns3Open THEN Min(ns3Owes + 1, MaxOwed)
                                ELSE ns3Owes
                  /\ pc' = "followerWait"
                  /\ UNCHANGED <<pm, stepSuccess, consecFailures>>
               \/ /\ ~ns3Open
                  /\ FailStep
                  /\ UNCHANGED ns3Owes
    /\ UNCHANGED <<syncInterval, simulationTime, currentTime, running, initialized,
                   runResult, exitReason, lastExchange, scriptVars, detailVars, stopPc,
                   stopRequested,
                   leaderVars, nfvVars, fCurrentTime, fRunning, fInitialized,
                   fVehicles, smInitialized, smRunning, smServerSocket,
                   clientSocket, smCurrentTime, smPc, ns3Open>>

\* executeTimeStep, step 2: NS3Adapter::step and ExternalSyncManager::SyncToTime
\* up to and including SendSyncCommand.
FollowerStepSend ==
    /\ pc = "followerSend"
    /\ IF ~(fRunning /\ fInitialized) \/ ~smInitialized
       THEN /\ FailStep
            /\ syncRefused' = FALSE
            /\ UNCHANGED <<smTargetTime, syncPending, ns3Owes>>
       ELSE /\ smTargetTime' = fCurrentTime + syncInterval
            /\ syncPending' = TRUE
            /\ IF clientSocket < 0
               THEN /\ FailStep
                    /\ syncRefused' = TRUE
                    /\ UNCHANGED ns3Owes
               ELSE /\ syncRefused' = FALSE
                    /\ \/ /\ ns3Owes' = IF ns3Open THEN Min(ns3Owes + 1, MaxOwed)
                                        ELSE ns3Owes
                          /\ pc' = "followerWait"
                          /\ UNCHANGED <<pm, stepSuccess, consecFailures>>
                       \/ /\ ~ns3Open
                          /\ FailStep
                          /\ UNCHANGED ns3Owes
    /\ UNCHANGED <<syncInterval, simulationTime, currentTime, running, initialized,
                   runResult, exitReason, lastExchange, scriptVars, detailVars, stopPc,
                   stopRequested,
                   leaderVars, nfvVars, fCurrentTime, fRunning, fInitialized,
                   fVehicles, smInitialized, smRunning, smServerSocket,
                   clientSocket, smCurrentTime, smPc, ns3Open>>

\* executeTimeStep, step 2 continued: the wait in SyncToTime (sync completed,
\* or timeout / manager stopped), then NS3Adapter::step's currentTime_ = targetTime.
FollowerStepWait ==
    /\ pc = "followerWait"
    /\ IF ~syncPending
       THEN /\ smCurrentTime' = smTargetTime
            /\ fCurrentTime' = smTargetTime
            /\ pc' = "exchange"
            /\ UNCHANGED <<pm, stepSuccess, consecFailures>>
       ELSE /\ FailStep
            /\ UNCHANGED <<smCurrentTime, fCurrentTime>>
    /\ UNCHANGED <<syncInterval, simulationTime, currentTime, running, initialized,
                   runResult, exitReason, lastExchange, syncRefused, scriptVars, detailVars, stopPc, stopRequested,
                   leaderVars, nfvVars, fRunning, fInitialized, fVehicles,
                   smInitialized, smRunning, smServerSocket, clientSocket,
                   syncPending, smTargetTime, smPc, ns3Open, ns3Owes>>

\* executeTimeStep, step 3: both datasets are read, then each simulator's
\* dataset is replaced (updateVehicleData assigns); successfulSteps++.
ExchangeVehicleData ==
    /\ pc = "exchange"
    /\ fVehicles' = GivenToFollower(lVehicles, fVehicles)
    /\ lVehicles' = GivenToLeader(lVehicles, fVehicles)
    /\ lastExchange' = [n |-> 1, leaderBefore |-> lVehicles,
                        followerBefore |-> fVehicles,
                        leaderAfter |-> lVehicles', followerAfter |-> fVehicles']
    /\ pm' = [pm EXCEPT !.successfulSteps = @ + 1]
    /\ stepSuccess' = TRUE
    /\ consecFailures' = 0
    /\ pc' = "post"
    /\ UNCHANGED <<syncInterval, simulationTime, currentTime, running, initialized,
                   runResult, exitReason, syncRefused, scriptVars, detailVars, stopPc, stopRequested, lCurrentTime,
                   lRunning, lInitialized, serverSocket, followerSocket,
                   followerConnected, syncAckReceived, nextTime, leaderPc,
                   acceptCount, peerOpen, peerOwes, nfvVars, fCurrentTime,
                   fRunning, fInitialized, smInitialized, smRunning,
                   smServerSocket, clientSocket, syncPending, smCurrentTime,
                   smTargetTime, smPc, ns3Open, ns3Owes>>

\* The rest of the loop body: totalSteps++; on failure the failed-step test
\* (break), on success the time advance; then the check that both simulators
\* are still running (break).  A break runs into the end of run().
RunIterationEnd ==
    /\ pc = "post"
    /\ pm' = [pm EXCEPT !.totalSteps = @ + 1]
    /\ currentTime' = IF stepSuccess THEN AdvanceTime(currentTime, syncInterval)
                      ELSE currentTime
    /\ IF ~stepSuccess /\ TooManyFailures(pm.failedSteps)
       THEN Return(currentTime', "failures")
       ELSE IF ~lRunning \/ ~fRunning
            THEN Return(currentTime', "simulatorStopped")
            ELSE /\ pc' = "loop"
                 /\ UNCHANGED <<running, runResult, exitReason>>
    /\ UNCHANGED <<syncInterval, simulationTime, initialized, stepSuccess,
                   consecFailures, lastExchange, syncRefused, scriptVars, detailVars, stopPc, stopRequested,
                   leaderVars, nfvVars, followerVars>>

\* --------------------------------------- LeaderFollowerSynchronizer::stop
\* stop() up to the join inside ExternalSyncManager::Shutdown: returns at once
\* when not running; else running_ = false and follower_->shutdown() begins
\* (NS3Adapter::shutdown: running_ = false, the NS-3 process is killed, the
\* manager's running_ cleared).
StopBegin ==
    /\ stopPc = "idle"
    /\ running \/ pc = "returned"
    /\ stopRequested' = TRUE
    /\ IF ~running
       THEN /\ stopPc' = "done"
            /\ UNCHANGED <<running, fRunning, ns3Open, ns3Owes, smRunning>>
       ELSE /\ running' = FALSE
            /\ IF ~fInitialized
               THEN /\ stopPc' = "leaderShutdown"
                    /\ UNCHANGED <<fRunning, ns3Open, ns3Owes, smRunning>>
               ELSE /\ fRunning' = FALSE
                    /\ ns3Open' = FALSE
                    /\ ns3Owes' = 0
                    /\ smRunning' = FALSE
                    /\ stopPc' = "joining"
    /\ UNCHANGED <<syncInterval, simulationTime, currentTime, initialized, pm, pc,
                   stepSuccess, runResult, histVars, scriptVars, detailVars, leaderVars, nfvVars,
                   fCurrentTime, fInitialized, fVehicles, smInitialized,
                   smServerSocket, clientSocket, syncPending, smCurrentTime,
                   smTargetTime, smPc>>

\* The communication thread has been joined: the manager's sockets are closed,
\* the adapter is no longer initialised.
StopJoin ==
    /\ stopPc = "joining"
    /\ smPc = "ended"
    /\ clientSocket' = NoSocket
    /\ smServerSocket' = FALSE
    /\ smInitialized' = FALSE
    /\ fInitialized' = FALSE
    /\ stopPc' = "leaderShutdown"
    /\ UNCHANGED <<syncVars, histVars, scriptVars, detailVars, stopRequested, leaderVars, nfvVars,
                   fCurrentTime, fRunning, fVehicles, smRunning, syncPending,
                   smCurrentTime, smTargetTime, smPc, ns3Open, ns3Owes>>

\* leader_->shutdown(): OMNeTOrchestrator::shutdown clears running_ and closes
\* the follower socket and the server socket.
StopLeaderShutdown ==
    /\ stopPc = "leaderShutdown"
    /\ lRunning' = FALSE
    /\ followerSocket' = NoSocket
    /\ serverSocket' = FALSE
    /\ peerOpen' = FALSE
    /\ peerOwes' = 0
    /\ stopPc' = "done"
    /\ UNCHANGED <<syncVars, histVars, scriptVars, detailVars, stopRequested, lCurrentTime, lInitialized,
                   followerConnected, syncAckReceived, lVehicles, nextTime,
                   leaderPc, acceptCount, nfvVars, followerVars>>

\* ----------------------------------------- OMNeTOrchestrator::leaderLoop
\* while (running_) is left (the follower socket is closed on the way out), or
\* with no follower socket the thread goes into accept().
LeaderLoopTop ==
    /\ leaderPc = "top"
    /\ ~lRunning \/ followerSocket < 0
    /\ IF ~lRunning
       THEN /\ leaderPc' = "ended"
            /\ followerSocket' = NoSocket
            /\ peerOpen' = IF followerSocket >= 0 THEN FALSE ELSE peerOpen
            /\ peerOwes' = IF followerSocket >= 0 THEN 0 ELSE peerOwes
       ELSE /\ leaderPc' = "accept"
            /\ UNCHANGED <<followerSocket, peerOpen, peerOwes>>
    /\ UNCHANGED <<syncVars, histVars, scriptVars, detailVars, stopPc, stopRequested, lCurrentTime,
                   lRunning, lInitialized, serverSocket, followerConnected,
                   syncAckReceived, lVehicles, nextTime, acceptCount, nfvVars,
                   followerVars>>

\* accept() returns: a peer has connected (followerConnected_ = true), or the
\* listening socket was closed and accept fails (continue).
LeaderAccept ==
    /\ leaderPc = "accept"
    /\ \/ /\ serverSocket
          /\ acceptCount < MaxAccepts
          /\ acceptCount' = acceptCount + 1
          /\ followerSocket' = acceptCount + 1
          /\ followerConnected' = TRUE
          /\ peerOpen' = TRUE
          /\ peerOwes' = 0
       \/ /\ ~serverSocket
          /\ followerSocket' = NoSocket
          /\ UNCHANGED <<acceptCount, followerConnected, peerOpen, peerOwes>>
    /\ leaderPc' = "top"
    /\ UNCHANGED <<syncVars, histVars, scriptVars, detailVars, stopPc, stopRequested, lCurrentTime,
                   lRunning, lInitialized, serverSocket, syncAckReceived,
                   lVehicles, nextTime, nfvVars, followerVars>>

\* The kinds a received CoSimMessage can show when receiveMessage assigned
\* none: message.type is left uninitialised.
UnassignedTypes == {"TIME_SYNC", "OTHER"}

\* One turn of the loop with a follower socket (while (running_) passed, one
\* receiveMessage, the switch).  A time-sync acknowledgment sets the ack flag;
\* a poll that assigns no kind (no data, undecodable text, unknown type)
\* switches on an unassigned kind; a JSON value that makes the parser throw
\* is caught, the follower socket closed and reset.
LeaderReceive ==
    /\ leaderPc = "top"
    /\ lRunning /\ followerSocket >= 0
    /\ \/ /\ peerOwes > 0
          /\ syncAckReceived' = TRUE
          /\ peerOwes' = peerOwes - 1
          /\ UNCHANGED <<followerSocket, followerConnected, peerOpen>>
       \/ /\ \E ty \in UnassignedTypes :
                syncAckReceived' = IF ty = "TIME_SYNC" THEN TRUE
                                   ELSE syncAckReceived
          /\ UNCHANGED <<followerSocket, followerConnected, peerOpen, peerOwes>>
       \/ /\ peerOpen
          /\ followerSocket' = NoSocket
          /\ followerConnected' = FALSE
          /\ peerOpen' = FALSE
          /\ peerOwes' = 0
          /\ UNCHANGED syncAckReceived
    /\ UNCHANGED <<syncVars, histVars, scriptVars, detailVars, stopPc, stopRequested, lCurrentTime,
                   lRunning, lInitialized, serverSocket, lVehicles, nextTime,
                   leaderPc, acceptCount, nfvVars, followerVars>>

\* The remote follower process closes its end of the connection.
PeerClose ==
    /\ followerSocket >= 0 /\ peerOpen
    /\ peerOpen' = FALSE
    /\ peerOwes' = 0
    /\ UNCHANGED <<syncVars, histVars, scriptVars, detailVars, stopPc, stopRequested, lCurrentTime,
                   lRunning, lInitialized, serverSocket, followerSocket,
                   followerConnected, syncAckReceived, lVehicles, nextTime,
                   leaderPc, acceptCount, nfvVars, followerVars>>

\* --------------------------------- ExternalSyncManager::CommunicationLoop
\* while (running_) is left, or with no client socket the thread goes into
\* accept().
SMLoopTop ==
    /\ smPc = "top"
    /\ ~smRunning \/ clientSocket < 0
    /\ smPc' = IF ~smRunning THEN "ended" ELSE "accept"
    /\ UNCHANGED <<syncVars, histVars, scriptVars, detailVars, stopPc, stopRequested, leaderVars, nfvVars,
                   fCurrentTime, fRunning, fInitialized, fVehicles,
                   smInitialized, smRunning, smServerSocket, clientSocket,
                   syncPending, smCurrentTime, smTargetTime, ns3Open, ns3Owes>>

\* accept() returns once the NS-3 process connects.
SMAccept ==
    /\ smPc = "accept"
    /\ smServerSocket /\ ns3Open
    /\ clientSocket' = 1
    /\ smPc' = "top"
    /\ UNCHANGED <<syncVars, histVars, scriptVars, detailVars, stopPc, stopRequested, leaderVars, nfvVars,
                   fCurrentTime, fRunning, fInitialized, fVehicles,
                   smInitialized, smRunning, smServerSocket, syncPending,
                   smCurrentTime, smTargetTime, ns3Open, ns3Owes>>

\* One turn of the loop with a client socket (one non-blocking recv):
\* SYNC_COMPLETE clears syncPending (HandleIncomingMessage); zero bytes means
\* the client disconnected and the socket is closed and reset.  (The NS-3
\* process sends nothing but SYNC_COMPLETE in these sessions, so the
\* follower's own dataset stays as constructed until the first exchange.)
SMReceive ==
    /\ smPc = "top"
    /\ smRunning /\ clientSocket >= 0
    /\ \/ /\ ns3Owes > 0
          /\ syncPending' = FALSE
          /\ ns3Owes' = ns3Owes - 1
          /\ UNCHANGED clientSocket
       \/ /\ ~ns3Open
          /\ clientSocket' = NoSocket
          /\ UNCHANGED <<syncPending, ns3Owes>>
    /\ UNCHANGED <<syncVars, histVars, scriptVars, detailVars, stopPc, stopRequested, leaderVars, nfvVars,
                   fCurrentTime, fRunning, fInitialized, fVehicles,
                   smInitialized, smRunning, smServerSocket, smCurrentTime,
                   smTargetTime, smPc, ns3Open>>

\* The NS-3 process exits (or closes its connection).
Ns3Close ==
    /\ ns3Open
    /\ ns3Open' = FALSE
    /\ ns3Owes' = 0
    /\ UNCHANGED <<syncVars, histVars, scriptVars, detailVars, stopPc, stopRequested, leaderVars, nfvVars,
                   fCurrentTime, fRunning, fInitialized, fVehicles,
                   smInitialized, smRunning, smServerSocket, clientSocket,
                   syncPending, smCurrentTime, smTargetTime, smPc>>

\* ------------------------------------ OMNeTOrchestrator, decision engine
\* Values a reported NDNMetrics snapshot takes: on, just below and just above
\* each threshold the engine compares with.
PitSizes == {0, 99, 100, 101, 149, 150, 200, 250}
CacheHitRatios == {20, 30, 40, 50, 60}
AvgLatencies == {0, 50, 51, 100, 101, 150}
EmergencyCounts == {0, 1, 3, 6}
NetworkUtilizations == {0, 80, 90}
Timestamps == {0, 1}

MetricsInputs ==
    [pitSize : PitSizes, cacheHitRatio : CacheHitRatios,
     avgLatency : AvgLatencies, emergencyMessages : EmergencyCounts,
     networkUtilization : NetworkUtilizations, timestamp : Timestamps]

\* A router check that also fires on the threshold itself.
shouldScaleUpInclusive(metrics, vnfType) ==
    CASE vnfType = "NDN_ROUTER" -> metrics.pitSize >= PIT_SCALE_THRESHOLD
      [] vnfType = "TRAFFIC_ANALYZER" -> metrics.networkUtilization > 80
      [] vnfType = "SECURITY_VNF" -> metrics.emergencyMessages > 5
      [] vnfType = "CACHE_OPTIMIZER" -> metrics.cacheHitRatio < 30
      [] OTHER -> FALSE

shouldScaleUp(metrics, vnfType) ==
    CASE vnfType = "NDN_ROUTER" -> metrics.pitSize > PIT_SCALE_THRESHOLD
      [] vnfType = "TRAFFIC_ANALYZER" -> metrics.networkUtilization > 80
      [] vnfType = "SECURITY_VNF" -> metrics.emergencyMessages > 5
      [] vnfType = "CACHE_OPTIMIZER" -> metrics.cacheHitRatio < 30
      [] OTHER -> FALSE

calculateRequiredInstances(metrics, vnfType) ==
    CASE vnfType = "NDN_ROUTER" -> Min(5, (metrics.pitSize \div 50) + 1)
      [] vnfType = "TRAFFIC_ANALYZER" ->
             Min(3, (metrics.networkUtilization * 4) \div 100)
      [] vnfType = "SECURITY_VNF" ->
             Min(3, (metrics.emergencyMessages \div 3) + 1)
      [] OTHER -> 1

\* A location rule that sends routers to the edge only above the migration
\* threshold plus half of it.
findOptimalLocationLate(metrics, vnfType) ==
    CASE vnfType = "NDN_ROUTER" ->
             IF metrics.avgLatency > LATENCY_THRESHOLD + 50 THEN "EDGE_1" ELSE "RSU_1"
      [] vnfType = "TRAFFIC_ANALYZER" -> "EDGE_1"
      [] vnfType = "SECURITY_VNF" -> "RSU_1"
      [] vnfType = "CACHE_OPTIMIZER" ->
             IF metrics.cacheHitRatio < 40 THEN "EDGE_2" ELSE "EDGE_1"
      [] OTHER -> "RSU_1"

findOptimalLocation(metrics, vnfType) ==
    CASE vnfType = "NDN_ROUTER" ->
             IF metrics.avgLatency > 50 THEN "EDGE_1" ELSE "RSU_1"
      [] vnfType = "TRAFFIC_ANALYZER" -> "EDGE_1"
      [] vnfType = "SECURITY_VNF" -> "RSU_1"
      [] vnfType = "CACHE_OPTIMIZER" ->
             IF metrics.cacheHitRatio < 40 THEN "EDGE_2" ELSE "EDGE_1"
      [] OTHER -> "RSU_1"

shouldMigrate(metrics, type) ==
    \/ metrics.avgLatency > LATENCY_THRESHOLD /\ type = "NDN_ROUTER"
    \/ metrics.cacheHitRatio < CACHE_EFFICIENCY_THRESHOLD
          /\ type = "CACHE_OPTIMIZER"

\* analyzeAndDecide, "Check if NDN Router VNF needs scaling".
RouterScaling(metrics, now) ==
    IF shouldScaleUp(metrics, "NDN_ROUTER")
    THEN << [vnfType |-> "NDN_ROUTER", action |-> "SCALE_UP",
             targetInstances |-> calculateRequiredInstances(metrics, "NDN_ROUTER"),
             sourceLocation |-> "",
             targetLocation |-> findOptimalLocation(metrics, "NDN_ROUTER"),
             reason |-> <<"PIT size exceeded threshold", metrics.pitSize>>,
             timestamp |-> now,
             priority |-> IF metrics.emergencyMessages > 0 THEN 1 ELSE 2] >>
    ELSE << >>

\* A cache check that also fires on the threshold itself.
CacheOptimizationInclusive(metrics, now) ==
    IF metrics.cacheHitRatio <= CACHE_EFFICIENCY_THRESHOLD
    THEN << [vnfType |-> "CACHE_OPTIMIZER", action |-> "OPTIMIZE",
             targetInstances |-> 1, sourceLocation |-> "",
             targetLocation |-> "EDGE_1",
             reason |-> <<"Cache hit ratio below threshold", metrics.cacheHitRatio>>,
             timestamp |-> now, priority |-> 3] >>
    ELSE << >>

\* A cache check that skips a snapshot reporting no cache hits at all.
CacheOptimizationAboveZero(metrics, now) ==
    IF 0 < metrics.cacheHitRatio /\ metrics.cacheHitRatio < CACHE_EFFICIENCY_THRESHOLD
    THEN << [vnfType |-> "CACHE_OPTIMIZER", action |-> "OPTIMIZE",
             targetInstances |-> 1, sourceLocation |-> "",
             targetLocation |-> "EDGE_1",
             reason |-> <<"Cache hit ratio below threshold", metrics.cacheHitRatio>>,
             timestamp |-> now, priority |-> 3] >>
    ELSE << >>

\* analyzeAndDecide, "Check cache efficiency for Cache Optimizer VNF".
CacheOptimization(metrics, now) ==
    IF metrics.cacheHitRatio < CACHE_EFFICIENCY_THRESHOLD
    THEN << [vnfType |-> "CACHE_OPTIMIZER", action |-> "OPTIMIZE",
             targetInstances |-> 1, sourceLocation |-> "",
             targetLocation |-> "EDGE_1",
             reason |-> <<"Cache hit ratio below threshold", metrics.cacheHitRatio>>,
             timestamp |-> now, priority |-> 3] >>
    ELSE << >>

\* A migration check that compares with the emergency latency threshold.
LatencyMigrationAtEmergency(metrics, now) ==
    IF metrics.avgLatency > EMERGENCY_LATENCY_THRESHOLD
    THEN << [vnfType |-> "NDN_ROUTER", action |-> "MIGRATE",
             targetInstances |-> 1, sourceLocation |-> "RSU_1",
             targetLocation |-> findOptimalLocation(metrics, "NDN_ROUTER"),
             reason |-> <<"High latency", metrics.avgLatency>>,
             timestamp |-> now, priority |-> 1] >>
    ELSE << >>

\* analyzeAndDecide, "Check latency for potential migration".
LatencyMigration(metrics, now) ==
    IF metrics.avgLatency > LATENCY_THRESHOLD /\ shouldMigrate(metrics, "NDN_ROUTER")
    THEN << [vnfType |-> "NDN_ROUTER", action |-> "MIGRATE",
             targetInstances |-> 1, sourceLocation |-> "RSU_1",
             targetLocation |-> findOptimalLocation(metrics, "NDN_ROUTER"),
             reason |-> <<"High latency", metrics.avgLatency>>,
             timestamp |-> now,
             priority |-> IF metrics.avgLatency > EMERGENCY_LATENCY_THRESHOLD
                          THEN 1 ELSE 2] >>
    ELSE << >>

\* An emergency response gated by the security type's own scale-up check.
EmergencyResponseByScaleCheck(metrics, now) ==
    IF shouldScaleUp(metrics, "SECURITY_VNF")
    THEN << [vnfType |-> "SECURITY_VNF", action |-> "SCALE_UP",
             targetInstances |-> 2, sourceLocation |-> "",
             targetLocation |-> "RSU_1",
             reason |-> <<"Emergency messages detected", metrics.emergencyMessages>>,
             timestamp |-> now, priority |-> 1] >>
    ELSE << >>

\* analyzeAndDecide, "Emergency response for safety messages".
EmergencyResponse(metrics, now) ==
    IF metrics.emergencyMessages > 0
    THEN << [vnfType |-> "SECURITY_VNF", action |-> "SCALE_UP",
             targetInstances |-> 2, sourceLocation |-> "",
             targetLocation |-> "RSU_1",
             reason |-> <<"Emergency messages detected", metrics.emergencyMessages>>,
             timestamp |-> now, priority |-> 1] >>
    ELSE << >>

\* An engine that puts the emergency response at the head of its list.
analyzeAndDecideEmergencyFirst(metrics, now) ==
    EmergencyResponse(metrics, now) \o RouterScaling(metrics, now)
        \o CacheOptimization(metrics, now) \o LatencyMigration(metrics, now)

\* The list analyzeAndDecide returns: the four checks in the order of the code.
analyzeAndDecide(metrics, now) ==
    RouterScaling(metrics, now) \o CacheOptimization(metrics, now)
        \o LatencyMigration(metrics, now) \o EmergencyResponse(metrics, now)

\* The counters analyzeAndDecide updates: one increment in each branch that
\* has one, then totalDecisions += decisions.size().
analyzeCounters(p, metrics, now) ==
    [p EXCEPT
       !.scalingEvents = @ + Len(RouterScaling(metrics, now)),
       !.migrationEvents = @ + Len(LatencyMigration(metrics, now)),
       !.emergencyResponses = @ + Len(EmergencyResponse(metrics, now)),
       !.totalDecisions = @ + Len(analyzeAndDecide(metrics, now))]

\* executeNFVDecisions, SCALE_UP: targetInstances calls of deployVNF.
RECURSIVE deployInstances(_, _, _, _)
deployInstances(inst, type, location, n) ==
    IF n <= 0 THEN inst
    ELSE deployInstances(deployVNF(inst, type, location), type, location, n - 1)

\* An execution whose SCALE_DOWN removes the oldest instance of the type.
executeDecisionDropOldest(st, d) ==
    IF d.action = "SCALE_UP"
    THEN [inst |-> deployInstances(st.inst, d.vnfType, d.targetLocation,
                                   d.targetInstances),
          perf |-> [st.perf EXCEPT !.scalingEvents = @ + 1]]
    ELSE IF d.action = "SCALE_DOWN"
    THEN [st EXCEPT !.inst[d.vnfType] = IF Len(@) > 0 THEN Tail(@) ELSE @]
    ELSE IF d.action = "MIGRATE" /\ Len(st.inst[d.vnfType]) > 0
    THEN [inst |-> [st.inst EXCEPT ![d.vnfType][1].location = d.targetLocation],
          perf |-> [st.perf EXCEPT !.migrationEvents = @ + 1]]
    ELSE st

\* An execution whose MIGRATE moves the newest instance of the type.
executeDecisionMoveNewest(st, d) ==
    IF d.action = "SCALE_UP"
    THEN [inst |-> deployInstances(st.inst, d.vnfType, d.targetLocation,
                                   d.targetInstances),
          perf |-> [st.perf EXCEPT !.scalingEvents = @ + 1]]
    ELSE IF d.action = "SCALE_DOWN"
    THEN [st EXCEPT !.inst[d.vnfType] =
              IF Len(@) > 0 THEN SubSeq(@, 1, Len(@) - 1) ELSE @]
    ELSE IF d.action = "MIGRATE" /\ Len(st.inst[d.vnfType]) > 0
    THEN [inst |-> [st.inst EXCEPT
                       ![d.vnfType][Len(st.inst[d.vnfType])].location =
                           d.targetLocation],
          perf |-> [st.perf EXCEPT !.migrationEvents = @ + 1]]
    ELSE st

\* An execution whose SCALE_UP raises the number of instances to the target.
executeDecisionScaleTo(st, d) ==
    IF d.action = "SCALE_UP"
    THEN [inst |-> deployInstances(st.inst, d.vnfType, d.targetLocation,
                                   d.targetInstances - Len(st.inst[d.vnfType])),
          perf |-> [st.perf EXCEPT !.scalingEvents = @ + 1]]
    ELSE IF d.action = "SCALE_DOWN"
    THEN [st EXCEPT !.inst[d.vnfType] =
              IF Len(@) > 0 THEN SubSeq(@, 1, Len(@) - 1) ELSE @]
    ELSE IF d.action = "MIGRATE" /\ Len(st.inst[d.vnfType]) > 0
    THEN [inst |-> [st.inst EXCEPT ![d.vnfType][1].location = d.targetLocation],
          perf |-> [st.perf EXCEPT !.migrationEvents = @ + 1]]
    ELSE st

\* An execution whose OPTIMIZE deploys one more instance of the type.
executeDecisionOptimizeDeploys(st, d) ==
    IF d.action = "SCALE_UP"
    THEN [inst |-> deployInstances(st.inst, d.vnfType, d.targetLocation,
                                   d.targetInstances),
          perf |-> [st.perf EXCEPT !.scalingEvents = @ + 1]]
    ELSE IF d.action = "SCALE_DOWN"
    THEN [st EXCEPT !.inst[d.vnfType] =
              IF Len(@) > 0 THEN SubSeq(@, 1, Len(@) - 1) ELSE @]
    ELSE IF d.action = "MIGRATE" /\ Len(st.inst[d.vnfType]) > 0
    THEN [inst |-> [st.inst EXCEPT ![d.vnfType][1].location = d.targetLocation],
          perf |-> [st.perf EXCEPT !.migrationEvents = @ + 1]]
    ELSE IF d.action = "OPTIMIZE"
    THEN [st EXCEPT !.inst = deployVNF(@, d.vnfType, d.targetLocation)]
    ELSE st

\* executeNFVDecisions, the body of the loop for one decision; st holds the
\* inventory and the counters.
executeDecision(st, d) ==
    IF d.action = "SCALE_UP"
    THEN [inst |-> deployInstances(st.inst, d.vnfType, d.targetLocation,
                                   d.targetInstances),
          perf |-> [st.perf EXCEPT !.scalingEvents = @ + 1]]
    ELSE IF d.action = "SCALE_DOWN"
    THEN [st EXCEPT !.inst[d.vnfType] =
              IF Len(@) > 0 THEN SubSeq(@, 1, Len(@) - 1) ELSE @]
    ELSE IF d.action = "MIGRATE" /\ Len(st.inst[d.vnfType]) > 0
    THEN [inst |-> [st.inst EXCEPT ![d.vnfType][1].location = d.targetLocation],
          perf |-> [st.perf EXCEPT !.migrationEvents = @ + 1]]
    ELSE st

RECURSIVE executeNFVDecisions(_, _)
executeNFVDecisions(st, ds) ==
    IF ds = << >> THEN st
    ELSE executeNFVDecisions(executeDecision(st, Head(ds)), Tail(ds))

\* The decisions of a list that have one action.
WithAction(ds, action) == SelectSeq(ds, LAMBDA d : d.action = action)

\* The emergency decisions of a list (the ones the emergency check emits).
EmergencyDecisions(ds) ==
    SelectSeq(ds, LAMBDA d : d.reason[1] = "Emergency messages detected")

\* The count of the decisions emitted so far, with one more list emitted.
CountEmitted(e, ds) ==
    [totalDecisions |-> e.totalDecisions + Len(ds),
     scalingEvents |-> e.scalingEvents + Len(WithAction(ds, "SCALE_UP")),
     migrationEvents |-> e.migrationEvents + Len(WithAction(ds, "MIGRATE")),
     emergencyResponses |-> e.emergencyResponses + Len(EmergencyDecisions(ds))]

\* leaderLoop receives NDN_METRICS: parseNDNMetrics, then handleFollowerMetrics
\* (analyzeAndDecide, executeNFVDecisions when the list is not empty, one
\* NFV_COMMAND sent per decision).
ReceiveMetrics ==
    /\ leaderPc = "top"
    /\ lRunning /\ followerSocket >= 0 /\ peerOpen
    /\ metricsLeft > 0
    /\ metricsLeft' = metricsLeft - 1
    /\ decisions' = analyzeAndDecide(snapshot, lCurrentTime)
    /\ LET st == executeNFVDecisions(
                     [inst |-> vnfInstances,
                      perf |-> analyzeCounters(perf, snapshot, lCurrentTime)],
                     decisions')
       IN /\ vnfInstances' = st.inst
          /\ perf' = st.perf
    /\ lastMessage' = "metrics"
    /\ analysedInventory' = vnfInstances
    /\ emitted' = CountEmitted(emitted, decisions')
    /\ issuedIds' = issuedIds \cup IdsOf(vnfInstances')
    /\ UNCHANGED <<syncVars, histVars, scriptVars, detailVars, stopPc, stopRequested, leaderVars, snapshot,
                   callsLeft, followerVars>>

\* The malformed texts a follower can send in place of a metrics message.
MalformedForms == {"notJson", "wrongType"}

\* leaderLoop receives a malformed metrics message.
\*  - wrongType: the text parses, type is "NDN_METRICS", and a metric field
\*    holds a string: asUInt/asDouble throws inside the try of leaderLoop and
\*    the catch closes the follower socket (running_ holds).
\*  - notJson: receiveMessage's parse fails and message.type is returned
\*    without ever being assigned; the switch takes any of its branches.  In
\*    the NDN_METRICS branch the payload is the empty string, which
\*    parseNDNMetrics turns into the default (zero) metrics.
ReceiveMalformedMetrics ==
    /\ leaderPc = "top"
    /\ lRunning /\ followerSocket >= 0 /\ peerOpen
    /\ metricsLeft > 0
    /\ metricsLeft' = metricsLeft - 1
    /\ lastMessage' = "malformed"
    /\ \E form \in MalformedForms :
          IF form = "wrongType"
          THEN /\ followerSocket' = NoSocket
               /\ followerConnected' = FALSE
               /\ peerOpen' = FALSE
               /\ peerOwes' = 0
               /\ UNCHANGED <<syncAckReceived, vnfInstances, perf, decisions,
                              analysedInventory, emitted, issuedIds>>
          ELSE \E ty \in {"NDN_METRICS"} \cup UnassignedTypes :
                 /\ IF ty = "NDN_METRICS"
                    THEN /\ decisions' = analyzeAndDecide(ZeroMetrics, lCurrentTime)
                         /\ LET st == executeNFVDecisions(
                                          [inst |-> vnfInstances,
                                           perf |-> analyzeCounters(perf, ZeroMetrics,
                                                                    lCurrentTime)],
                                          decisions')
                            IN /\ vnfInstances' = st.inst
                               /\ perf' = st.perf
                         /\ analysedInventory' = vnfInstances
                         /\ emitted' = CountEmitted(emitted, decisions')
                         /\ issuedIds' = issuedIds \cup IdsOf(vnfInstances')
                         /\ UNCHANGED syncAckReceived
                    ELSE /\ syncAckReceived' = IF ty = "TIME_SYNC" THEN TRUE
                                               ELSE syncAckReceived
                         /\ UNCHANGED <<vnfInstances, perf, decisions,
                                        analysedInventory, emitted, issuedIds>>
                 /\ UNCHANGED <<followerSocket, followerConnected, peerOpen,
                                peerOwes>>
    /\ UNCHANGED <<syncVars, histVars, scriptVars, detailVars, stopPc, stopRequested, lCurrentTime,
                   lRunning, lInitialized, serverSocket, lVehicles, nextTime,
                   leaderPc, acceptCount, snapshot, callsLeft, followerVars>>

\* The types, locations and decisions a caller of the public inventory
\* operations passes ("RESTART" is an action executeNFVDecisions has no branch
\* for).
InventoryTypes == {"NDN_ROUTER", "CACHE_OPTIMIZER"}
Locations == {"RSU_1", "EDGE_1"}
InventoryDecisions ==
    {d \in [vnfType : InventoryTypes,
            action : {"SCALE_UP", "SCALE_DOWN", "MIGRATE", "OPTIMIZE", "RESTART"},
            targetInstances : {1, 2}, sourceLocation : {""},
            targetLocation : Locations, reason : {<<"Requested by caller", 0>>},
            timestamp : {0}, priority : {1}] :
        /\ d.action # "SCALE_UP" => d.targetInstances = 1
        /\ d.action \in {"SCALE_DOWN", "OPTIMIZE", "RESTART"}
              => d.targetLocation = "RSU_1"}

\* A caller of the public executeNFVDecisions passes a list of one decision.
CallExecuteNFVDecisions ==
    /\ lInitialized /\ callsLeft > 0
    /\ callsLeft' = callsLeft - 1
    /\ \E d \in InventoryDecisions :
          /\ decisions' = <<d>>
          /\ LET st == executeNFVDecisions([inst |-> vnfInstances, perf |-> perf],
                                           decisions')
             IN /\ vnfInstances' = st.inst
                /\ perf' = st.perf
    /\ lastMessage' = "execute"
    /\ analysedInventory' = vnfInstances
    /\ issuedIds' = issuedIds \cup IdsOf(vnfInstances')
    /\ UNCHANGED <<syncVars, histVars, scriptVars, detailVars, stopPc, stopRequested, leaderVars, snapshot,
                   metricsLeft, emitted, followerVars>>

\* A caller of the public deployVNF.
CallDeployVNF ==
    /\ lInitialized /\ callsLeft > 0
    /\ callsLeft' = callsLeft - 1
    /\ \E type \in InventoryTypes, location \in Locations :
          vnfInstances' = deployVNF(vnfInstances, type, location)
    /\ lastMessage' = "deploy"
    /\ analysedInventory' = vnfInstances
    /\ issuedIds' = issuedIds \cup IdsOf(vnfInstances')
    /\ UNCHANGED <<syncVars, histVars, scriptVars, detailVars, stopPc, stopRequested, leaderVars, perf,
                   snapshot, metricsLeft, decisions, emitted, followerVars>>

\* A caller of the public analyzeAndDecide evaluates the snapshot: the list is
\* returned and the decision counters are updated.
CallAnalyzeAndDecide ==
    /\ lInitialized /\ callsLeft > 0
    /\ callsLeft' = callsLeft - 1
    /\ decisions' = analyzeAndDecide(snapshot, lCurrentTime)
    /\ perf' = analyzeCounters(perf, snapshot, lCurrentTime)
    /\ lastMessage' = "analyse"
    /\ analysedInventory' = vnfInstances
    /\ emitted' = CountEmitted(emitted, decisions')
    /\ UNCHANGED <<syncVars, histVars, scriptVars, detailVars, stopPc, stopRequested, leaderVars,
                   vnfInstances, snapshot, metricsLeft, issuedIds, followerVars>>

\* ------------------------------------- the follower script's connect routine
\* The three connect routines of the repository: CoSimCommunicator's
\* ConnectToLeader and the two RealNDNSimLauncher::connectToLeader (the
\* launcher script, which closes the socket on failure, and the launcher
\* class, which does not).
ConnectRoutines == {"CoSimCommunicator", "RealNDNSimLauncherScript",
                    "RealNDNSimLauncher"}

\* What the script reads to know whether it is connected: g_clientSocket >= 0
\* for CoSimCommunicator (SendMessage), connected_ for RealNDNSimLauncher.
MarkedConnected ==
    IF connImpl = "CoSimCommunicator" THEN scriptSocket >= 0 ELSE scriptConnected

\* The routine is entered: socket() fails (return false) or gives a socket.
ConnectBegin ==
    /\ connPc = "idle"
    /\ \/ /\ connPc' = "failed"
          /\ UNCHANGED scriptSocket
       \/ /\ scriptSocket' = 1
          /\ connPc' = "attempt"
    /\ UNCHANGED <<syncVars, histVars, stopPc, stopRequested, leaderVars, nfvVars,
                   followerVars, connImpl, connAttempts, connDelay,
                   scriptConnected, wireVars, detailVars>>

\* One turn of the loop, up to connect(): it returns 0 (only a listening
\* leader lets it) and the routine returns true, or it fails.
ConnectAttempt ==
    /\ connPc = "attempt"
    /\ connAttempts' = connAttempts + 1
    /\ \/ /\ serverSocket
          /\ scriptConnected' = TRUE
          /\ connPc' = "connected"
       \/ /\ connPc' = "sleep"
          /\ UNCHANGED scriptConnected
    /\ UNCHANGED <<syncVars, histVars, stopPc, stopRequested, leaderVars, nfvVars,
                   followerVars, connImpl, connDelay, scriptSocket, wireVars, detailVars>>

\* The sleep after a failed attempt a turn too late: the loop is left after
\* one attempt more.
ConnectSleepOneMore ==
    /\ connPc = "sleep"
    /\ connDelay' = connDelay + ConnectDelaySeconds
    /\ IF connAttempts <= ConnectMaxAttempts
       THEN /\ connPc' = "attempt"
            /\ UNCHANGED scriptSocket
       ELSE /\ connPc' = "failed"
            /\ scriptSocket' = IF connImpl = "CoSimCommunicator" THEN NoSocket
                               ELSE scriptSocket
    /\ UNCHANGED <<syncVars, histVars, stopPc, stopRequested, leaderVars, nfvVars,
                   followerVars, connImpl, connAttempts, scriptConnected,
                   wireVars, detailVars>>

\* The rest of a failed turn: sleep(2), the counter's increment and test;
\* when the loop is left the routine returns false (CoSimCommunicator closes
\* the socket and resets g_clientSocket; the launchers leave leaderSocket_
\* as it is).
ConnectSleep ==
    /\ connPc = "sleep"
    /\ connDelay' = connDelay + ConnectDelaySeconds
    /\ IF connAttempts < ConnectMaxAttempts
       THEN /\ connPc' = "attempt"
            /\ UNCHANGED scriptSocket
       ELSE /\ connPc' = "failed"
            /\ scriptSocket' = IF connImpl = "CoSimCommunicator" THEN NoSocket
                               ELSE scriptSocket
    /\ UNCHANGED <<syncVars, histVars, stopPc, stopRequested, leaderVars, nfvVars,
                   followerVars, connImpl, connAttempts, scriptConnected,
                   wireVars, detailVars>>

\* ------------------------------------------------ messages on the wire
\* CoSimMessage::Type, in the order of the enum (TIME_SYNC is 0).
Kinds == <<"TIME_SYNC", "NDN_METRICS", "NFV_COMMAND", "VEHICLE_UPDATE",
           "EMERGENCY_EVENT">>
KindSet == {Kinds[i] : i \in 1..Len(Kinds)}

\* static_cast<int>(type) written as a JSON number and read back with
\* asString(): the decimal text of the enum value.
KindNumberText(kind) ==
    CASE kind = "TIME_SYNC" -> "0"
      [] kind = "NDN_METRICS" -> "1"
      [] kind = "NFV_COMMAND" -> "2"
      [] kind = "VEHICLE_UPDATE" -> "3"
      [] OTHER -> "4"

WireTimestamps == {0, 1, 2}

\* A chunk of bytes written by one send() call.  form is "prefix" (the four
\* bytes of htonl(length), the first of which is NUL for any header shorter
\* than 2^24 bytes), "json" (one JSON object) or "text" (bytes that are not
\* JSON).  typeText is what json.get("type", "").asString() gives for the
\* object, timestamp what json.get("timestamp", 0.0).asDouble() gives, marker
\* the "TYPE:<kind>" text the chunk contains ("" when it contains none).
Chunk(form, body, typeText, timestamp) ==
    [form |-> form, body |-> body, typeText |-> typeText,
     timestamp |-> timestamp, marker |-> ""]

\* The payloads the two sides build: metricsToJson (it has a "timestamp" key
\* and no "type" key), SendTimeAck's "ACK", sendTimeSyncCommand's command
\* object (no "type", no "timestamp" key) and nfvDecisionToJson (a
\* "timestamp" key, no "type" key).
MetricsPayload(ts) == Chunk("json", "metrics", "", ts)
AckPayload == Chunk("text", "ACK", "", 0)
TimeSyncPayload == Chunk("json", "ADVANCE_TIME", "", 0)
DecisionPayload(ts) == Chunk("json", "decision", "", ts)

\* The messages the follower script sends (SendMetrics, SendTimeAck) and the
\* ones the leader sends (sendTimeSyncCommand, handleFollowerMetrics).
FollowerMessages ==
    {[type |-> "NDN_METRICS", timestamp |-> ts, priority |-> 2,
      payload |-> <<MetricsPayload(ts)>>] : ts \in WireTimestamps}
    \cup {[type |-> "TIME_SYNC", timestamp |-> ts, priority |-> 1,
           payload |-> <<AckPayload>>] : ts \in WireTimestamps}
LeaderMessages ==
    {[type |-> "TIME_SYNC", timestamp |-> ts, priority |-> 1,
      payload |-> <<TimeSyncPayload>>] : ts \in WireTimestamps}
    \cup {[type |-> "NFV_COMMAND", timestamp |-> ts, priority |-> p,
           payload |-> <<DecisionPayload(ts)>>] :
              ts \in WireTimestamps, p \in {1, 3}}

\* CoSimCommunicator::SendMessage: the header length, the header object
\* (type as a number, timestamp, priority, payload_size), then the payload
\* when it is not empty; one send() each.
CoSimCommunicatorSendMessage(m) ==
    << Chunk("prefix", "headerLen", "", 0),
       Chunk("json", "header", KindNumberText(m.type), m.timestamp) >>
    \o m.payload

\* OMNeTOrchestrator::sendMessage: message.payload and nothing else.
sendMessage(m) == m.payload

\* std::string data(buffer): the bytes up to the first NUL.
RECURSIVE CString(_)
CString(bytes) ==
    IF bytes = << >> \/ Head(bytes).form = "prefix" THEN << >>
    ELSE <<Head(bytes)>> \o CString(Tail(bytes))

\* A CoSimMessage none of whose members was assigned: type and timestamp hold
\* whatever the stack held, payload is the empty string.
UnassignedMessages ==
    [type : KindSet, timestamp : WireTimestamps, payload : {<< >>}]

\* OMNeTOrchestrator::receiveMessage on the bytes one recv() returned: the
\* messages it can return.  Only a text that parses as JSON (the parser reads
\* the leading object) and whose "type" is "NDN_METRICS" or "TIME_SYNC_ACK"
\* assigns anything.
receiveMessage(bytes) ==
    LET data == CString(bytes) IN
    IF data # << >> /\ Head(data).form = "json"
    THEN IF Head(data).typeText = "NDN_METRICS"
         THEN {[type |-> "NDN_METRICS", timestamp |-> Head(data).timestamp,
                payload |-> data]}
         ELSE IF Head(data).typeText = "TIME_SYNC_ACK"
         THEN {[type |-> "TIME_SYNC", timestamp |-> Head(data).timestamp,
                payload |-> << >>]}
         ELSE UnassignedMessages
    ELSE UnassignedMessages

\* The follower script's receive (V2XCoSimManager::ReceiveMessage, then
\* ProcessOMNeTCommands): the text as received; the kind is the one whose
\* "TYPE:<kind>" marker the text contains, no timestamp is decoded.
RECURSIVE MarkerOf(_)
MarkerOf(bytes) ==
    IF bytes = << >> THEN ""
    ELSE IF Head(bytes).marker # "" THEN Head(bytes).marker
    ELSE MarkerOf(Tail(bytes))

scriptReceiveMessage(bytes) ==
    LET data == CString(bytes) IN
    [type |-> IF MarkerOf(data) \in {"NFV_COMMAND", "TIME_SYNC"}
              THEN MarkerOf(data) ELSE "unrecognised",
     timestamp |-> -1, payload |-> data]

\* The follower script hands one message to CoSimCommunicator::SendMessage.
ScriptSends ==
    /\ sent = << >> /\ scriptConnected /\ followerSocket >= 0
    /\ \E m \in FollowerMessages :
          /\ sent' = <<[from |-> "follower", message |-> m]>>
          /\ wire' = CoSimCommunicatorSendMessage(m)
    /\ UNCHANGED <<syncVars, histVars, stopPc, stopRequested, leaderVars, nfvVars,
                   followerVars, connVars, received, detailVars>>

\* The leader hands one message to sendMessage.
LeaderSends ==
    /\ sent = << >> /\ scriptConnected /\ followerSocket >= 0
    /\ \E m \in LeaderMessages :
          /\ sent' = <<[from |-> "leader", message |-> m]>>
          /\ wire' = sendMessage(m)
    /\ UNCHANGED <<syncVars, histVars, stopPc, stopRequested, leaderVars, nfvVars,
                   followerVars, connVars, received, detailVars>>

\* leaderLoop calls receiveMessage: recv() returns some first part of what
\* is unread (TCP keeps no message boundaries).
LeaderReceivesBytes ==
    /\ sent # << >> /\ sent[1].from = "follower" /\ wire # << >>
    /\ leaderPc = "top" /\ lRunning /\ followerSocket >= 0
    /\ \E k \in 1..Len(wire) :
          /\ \E m \in receiveMessage(SubSeq(wire, 1, k)) : received' = <<m>>
          /\ wire' = SubSeq(wire, k + 1, Len(wire))
    /\ UNCHANGED <<syncVars, histVars, stopPc, stopRequested, leaderVars, nfvVars,
                   followerVars, connVars, sent, detailVars>>

\* The follower script polls its socket.
ScriptReceivesBytes ==
    /\ sent # << >> /\ sent[1].from = "leader" /\ wire # << >>
    /\ scriptConnected
    /\ \E k \in 1..Len(wire) :
          /\ received' = <<scriptReceiveMessage(SubSeq(wire, 1, k))>>
          /\ wire' = SubSeq(wire, k + 1, Len(wire))
    /\ UNCHANGED <<syncVars, histVars, stopPc, stopRequested, leaderVars, nfvVars,
                   followerVars, connVars, sent, detailVars>>

\* ------------------------------------------------------- specification
Next ==
    \/ InitLeaderStart \/ InitLeaderFinish \/ InitFollower \/ InitVerify
    \/ RunStart \/ RunLoopCheck
    \/ LeaderStepSend \/ LeaderStepWait \/ LeaderStepAck
    \/ FollowerStepSend \/ FollowerStepWait
    \/ ExchangeVehicleData \/ RunIterationEnd
    \/ StopBegin \/ StopJoin \/ StopLeaderShutdown
    \/ LeaderLoopTop \/ LeaderAccept \/ LeaderReceive \/ PeerClose
    \/ SMLoopTop \/ SMAccept \/ SMReceive \/ Ns3Close

Spec == Init /\ [][Next]_vars

\* The decision engine: the leader initialised and its follower connected
\* (the synchronizer about to initialise the NS-3 side), the follower reporting
\* one snapshot MaxMetrics times.
InitEngine ==
    /\ syncInterval = 1 /\ simulationTime = 1
    /\ snapshot \in MetricsInputs /\ metricsLeft = MaxMetrics /\ callsLeft = 0
    /\ SynchronizerConstructed /\ pc = "initFollower"
    /\ lCurrentTime = 0 /\ lRunning = TRUE /\ lInitialized = TRUE
    /\ serverSocket = TRUE /\ followerSocket = 1
    /\ followerConnected = TRUE /\ syncAckReceived = FALSE
    /\ lVehicles = LeaderOwnVehicles /\ nextTime = 0 /\ leaderPc = "top"
    /\ acceptCount = 1 /\ peerOpen = TRUE /\ peerOwes = 0
    /\ vnfInstances = InitialDeployment([t \in VNFTypes |-> << >>])
    /\ perf = [totalDecisions |-> 0, scalingEvents |-> 0, migrationEvents |-> 0,
               emergencyResponses |-> 0]
    /\ decisions = << >>
    /\ lastMessage = "none"
    /\ analysedInventory = vnfInstances
    /\ emitted = [totalDecisions |-> 0, scalingEvents |-> 0, migrationEvents |-> 0,
                  emergencyResponses |-> 0]
    /\ issuedIds = IdsOf(vnfInstances)
    /\ FollowerConstructed
    /\ DetailConstructed
    /\ ScriptConstructed /\ connImpl = "CoSimCommunicator"

NextEngine == ReceiveMetrics

SpecEngine == InitEngine /\ [][NextEngine]_vars

\* The snapshots a follower reports in a leader session: each check of
\* analyzeAndDecide on either side of its threshold.
SessionInputs ==
    {m \in MetricsInputs : /\ m.pitSize \in {0, 150}
                           /\ m.cacheHitRatio \in {20, 60}
                           /\ m.avgLatency \in {0, 101}
                           /\ m.emergencyMessages \in {0, 1}
                           /\ m.networkUtilization = 0
                           /\ m.timestamp = 0}

\* A leader session: both simulators initialised and connected, the
\* synchronizer in its first executeTimeStep about to call the leader's step,
\* the follower reporting metrics (well-formed or malformed) MaxMetrics times
\* while the leader's step runs.
InitLeaderSession ==
    /\ syncInterval = 1 /\ simulationTime = MaxSimulationTime
    /\ currentTime = 0 /\ running = TRUE /\ initialized = TRUE
    /\ pm = [totalSteps |-> 0, successfulSteps |-> 0, failedSteps |-> 0]
    /\ pc = "leaderSend" /\ stepSuccess = FALSE /\ runResult = "none"
    /\ consecFailures = 0 /\ exitReason = "none" /\ syncRefused = FALSE
    /\ lastExchange = [n |-> 0, leaderBefore |-> {}, followerBefore |-> {},
                       leaderAfter |-> {}, followerAfter |-> {}]
    /\ stopPc = "idle" /\ stopRequested = FALSE
    /\ snapshot \in SessionInputs /\ metricsLeft = MaxMetrics /\ callsLeft = 0
    /\ lCurrentTime = 0 /\ lRunning = TRUE /\ lInitialized = TRUE
    /\ serverSocket = TRUE /\ followerSocket = 1
    /\ followerConnected = TRUE /\ syncAckReceived = FALSE
    /\ lVehicles = LeaderOwnVehicles /\ nextTime = 0 /\ leaderPc = "top"
    /\ acceptCount = 1 /\ peerOpen = TRUE /\ peerOwes = 0
    /\ vnfInstances = InitialDeployment([t \in VNFTypes |-> << >>])
    /\ perf = [totalDecisions |-> 0, scalingEvents |-> 0, migrationEvents |-> 0,
               emergencyResponses |-> 0]
    /\ decisions = << >>
    /\ lastMessage = "none"
    /\ analysedInventory = [t \in VNFTypes |-> << >>]
    /\ emitted = [totalDecisions |-> 0, scalingEvents |-> 0, migrationEvents |-> 0,
                  emergencyResponses |-> 0]
    /\ issuedIds = IdsOf(vnfInstances)
    /\ fCurrentTime = 0 /\ fRunning = TRUE /\ fInitialized = TRUE
    /\ fVehicles = {} /\ smInitialized = TRUE /\ smRunning = TRUE
    /\ smServerSocket = TRUE /\ clientSocket = 1 /\ syncPending = FALSE
    /\ smCurrentTime = 0 /\ smTargetTime = 0 /\ smPc = "top"
    /\ ns3Open = TRUE /\ ns3Owes = 0
    /\ DetailConstructed
    /\ ScriptConstructed /\ connImpl = "CoSimCommunicator"

NextLeaderSession ==
    \/ ReceiveMetrics \/ ReceiveMalformedMetrics
    \/ LeaderStepSend \/ LeaderStepWait \/ LeaderStepAck
    \/ LeaderReceive

SpecLeaderSession == InitLeaderSession /\ [][NextLeaderSession]_vars

\* The inventory: the leader initialised (initialize has deployed one
\* instance of each type), its public inventory operations called MaxCalls
\* times.
InitInventory ==
    /\ syncInterval = 1 /\ simulationTime = 1
    /\ snapshot = ZeroMetrics /\ metricsLeft = 0 /\ callsLeft = MaxCalls
    /\ SynchronizerConstructed /\ pc = "initFollower"
    /\ lCurrentTime = 0 /\ lRunning = TRUE /\ lInitialized = TRUE
    /\ serverSocket = TRUE /\ followerSocket = NoSocket
    /\ followerConnected = FALSE /\ syncAckReceived = FALSE
    /\ lVehicles = LeaderOwnVehicles /\ nextTime = 0 /\ leaderPc = "accept"
    /\ acceptCount = 0 /\ peerOpen = FALSE /\ peerOwes = 0
    /\ vnfInstances = InitialDeployment([t \in VNFTypes |-> << >>])
    /\ perf = [totalDecisions |-> 0, scalingEvents |-> 0, migrationEvents |-> 0,
               emergencyResponses |-> 0]
    /\ decisions = << >>
    /\ lastMessage = "none"
    /\ analysedInventory = [t \in VNFTypes |-> << >>]
    /\ emitted = [totalDecisions |-> 0, scalingEvents |-> 0, migrationEvents |-> 0,
                  emergencyResponses |-> 0]
    /\ issuedIds = IdsOf(vnfInstances)
    /\ FollowerConstructed
    /\ DetailConstructed
    /\ ScriptConstructed /\ connImpl = "CoSimCommunicator"

NextInventory == CallExecuteNFVDecisions \/ CallDeployVNF

SpecInventory == InitInventory /\ [][NextInventory]_vars

\* The engine's public operations: the leader initialised, a snapshot at
\* hand (a reported one, or the all-zero one parseNDNMetrics returns for text
\* it cannot parse), analyzeAndDecide, executeNFVDecisions and deployVNF called
\* MaxFrameCalls times.
InitFrame ==
    /\ syncInterval = 1 /\ simulationTime = 1
    /\ snapshot \in SessionInputs \cup {ZeroMetrics}
    /\ metricsLeft = 0 /\ callsLeft = MaxFrameCalls
    /\ SynchronizerConstructed /\ pc = "initFollower"
    /\ lCurrentTime = 0 /\ lRunning = TRUE /\ lInitialized = TRUE
    /\ serverSocket = TRUE /\ followerSocket = NoSocket
    /\ followerConnected = FALSE /\ syncAckReceived = FALSE
    /\ lVehicles = LeaderOwnVehicles /\ nextTime = 0 /\ leaderPc = "accept"
    /\ acceptCount = 0 /\ peerOpen = FALSE /\ peerOwes = 0
    /\ vnfInstances = InitialDeployment([t \in VNFTypes |-> << >>])
    /\ perf = [totalDecisions |-> 0, scalingEvents |-> 0, migrationEvents |-> 0,
               emergencyResponses |-> 0]
    /\ decisions = << >>
    /\ lastMessage = "none"
    /\ analysedInventory = [t \in VNFTypes |-> << >>]
    /\ emitted = [totalDecisions |-> 0, scalingEvents |-> 0, migrationEvents |-> 0,
                  emergencyResponses |-> 0]
    /\ issuedIds = IdsOf(vnfInstances)
    /\ FollowerConstructed
    /\ DetailConstructed
    /\ ScriptConstructed /\ connImpl = "CoSimCommunicator"

NextFrame == CallAnalyzeAndDecide \/ CallExecuteNFVDecisions \/ CallDeployVNF

SpecFrame == InitFrame /\ [][NextFrame]_vars

\* The wire: the leader initialised, the follower script connected and
\* accepted, one message sent in one of the two directions.
InitWire ==
    /\ syncInterval = 1 /\ simulationTime = 1
    /\ snapshot = ZeroMetrics /\ metricsLeft = 0 /\ callsLeft = 0
    /\ SynchronizerConstructed /\ pc = "initFollower"
    /\ lCurrentTime = 0 /\ lRunning = TRUE /\ lInitialized = TRUE
    /\ serverSocket = TRUE /\ followerSocket = 1
    /\ followerConnected = TRUE /\ syncAckReceived = FALSE
    /\ lVehicles = LeaderOwnVehicles /\ nextTime = 0 /\ leaderPc = "top"
    /\ acceptCount = 1 /\ peerOpen = TRUE /\ peerOwes = 0
    /\ vnfInstances = InitialDeployment([t \in VNFTypes |-> << >>])
    /\ perf = [totalDecisions |-> 0, scalingEvents |-> 0, migrationEvents |-> 0,
               emergencyResponses |-> 0]
    /\ decisions = << >>
    /\ lastMessage = "none"
    /\ analysedInventory = [t \in VNFTypes |-> << >>]
    /\ emitted = [totalDecisions |-> 0, scalingEvents |-> 0, migrationEvents |-> 0,
                  emergencyResponses |-> 0]
    /\ issuedIds = IdsOf(vnfInstances)
    /\ FollowerConstructed
    /\ connImpl = "CoSimCommunicator" /\ connPc = "connected"
    /\ connAttempts = 1 /\ connDelay = 0
    /\ scriptSocket = 1 /\ scriptConnected = TRUE
    /\ sent = << >> /\ wire = << >> /\ received = << >>
    /\ DetailConstructed

NextWire ==
    \/ ScriptSends \/ LeaderReceivesBytes
    \/ LeaderSends \/ ScriptReceivesBytes

SpecWire == InitWire /\ [][NextWire]_vars

\* Connecting: the follower script runs its connect routine while the leader
\* is being initialised (the leader listens from startAsLeader on).
InitConnect ==
    /\ syncInterval = 1 /\ simulationTime = 1
    /\ snapshot = ZeroMetrics /\ metricsLeft = 0 /\ callsLeft = 0
    /\ SynchronizerConstructed /\ pc = "idle"
    /\ LeaderConstructed
    /\ FollowerConstructed
    /\ DetailConstructed
    /\ ScriptConstructed /\ connImpl \in ConnectRoutines

NextConnect ==
    \/ InitLeaderStart \/ InitLeaderFinish
    \/ ConnectBegin \/ ConnectAttempt \/ ConnectSleep

SpecConnect == InitConnect /\ [][NextConnect]_vars

\* ----------------------------------------------------------- properties
\* Positions of the synchronizer thread inside executeTimeStep.
InTimeStep ==
    pc \in {"leaderSend", "leaderWait", "leaderAck", "followerSend",
            "followerWait", "exchange"}

\* The decisions of the last analyzeAndDecide for one type and action.
DecisionsFor(type, action) ==
    SelectSeq(decisions, LAMBDA d : d.vnfType = type /\ d.action = action)

\* The last metrics message was well formed and its snapshot has been
\* analysed: decisions is the list for snapshot.
Analysed == lastMessage = "metrics"

\* C1: every iteration of the run loop whose time step succeeded increases
\* currentTime by exactly the configured sync interval, every iteration whose
\* time step failed leaves it unchanged, and nothing inside the time step
\* changes it.
C1TimeAdvance ==
    [][ /\ (pc = "post" /\ pc' # "post") =>
              currentTime' = currentTime + (IF stepSuccess THEN syncInterval ELSE 0)
        /\ InTimeStep => currentTime' = currentTime ]_vars

\* C1 witness: with a two-tick interval, one failed and one successful
\* iteration have completed and the time stands at two ticks.
C1Witness ==
    /\ pc \in {"loop", "returned"}
    /\ syncInterval = 2
    /\ pm.totalSteps = 2 /\ pm.successfulSteps = 1 /\ pm.failedSteps = 1
    /\ currentTime = 2

\* C2: lockstep: after every completed iteration of the run loop the leader's
\* time, the follower's time and the synchronizer's currentTime are equal.
C2Lockstep ==
    (pc \in {"loop", "returned"} /\ pm.totalSteps > 0) =>
        (lCurrentTime = currentTime /\ fCurrentTime = currentTime)

\* C3: once five consecutive time steps have failed and the loop has handled
\* the fifth, run() has returned false and no sixth failing step was made.
C3FiveFailuresEnd ==
    (consecFailures >= 5 /\ pc # "post") =>
        (pc = "returned" /\ runResult = FALSE /\ consecFailures = 5
         /\ pm.failedSteps >= 5)

\* C4: run() leaves its loop for failures only when the failed steps were
\* consecutive: at least five of them since the last successful step.
C4OnlyConsecutive ==
    exitReason = "failures" => consecFailures >= 5

\* C5: an initialised run() returns true only when the duration has elapsed,
\* and returns false without a stop request only when the consecutive
\* failures reached the threshold.
C5TerminalConditions ==
    (pc = "returned" /\ exitReason # "notInitialized") =>
        /\ runResult = TRUE => currentTime >= simulationTime
        /\ (runResult = FALSE /\ ~stopRequested) => consecFailures >= 5

\* C6: with the follower connection lost after having been established (the
\* follower socket reset) and no stop requested, a leader step that reaches
\* its acknowledgment wait does not succeed: the leader's time does not move.
C6LostFollowerFails ==
    [][ (pc = "leaderWait" /\ acceptCount > 0 /\ followerSocket < 0
         /\ lRunning /\ ~stopRequested) => lCurrentTime' = lCurrentTime ]_vars

\* C7: after a successful step both sides hold the union of the two datasets
\* as they stood at the exchange.
C7UnionBothSides ==
    lastExchange.n > 0 =>
        /\ lastExchange.leaderAfter =
               lastExchange.leaderBefore \cup lastExchange.followerBefore
        /\ lastExchange.followerAfter =
               lastExchange.leaderBefore \cup lastExchange.followerBefore

\* C8: analyzeAndDecide emits a router SCALE_UP decision exactly when pitSize
\* is above 100, at most one, with targetInstances = min(5, pitSize div 50 + 1);
\* pitSize 100 gives none, pitSize 150 gives 4.
C8RouterScaleUp ==
    Analysed =>
        LET r == DecisionsFor("NDN_ROUTER", "SCALE_UP") IN
        /\ Len(r) = (IF snapshot.pitSize > 100 THEN 1 ELSE 0)
        /\ \A i \in 1..Len(r) :
               r[i].targetInstances =
                   (IF (snapshot.pitSize \div 50) + 1 < 5
                    THEN (snapshot.pitSize \div 50) + 1 ELSE 5)
        /\ snapshot.pitSize = 100 => r = << >>
        /\ snapshot.pitSize = 150 => (r # << >> /\ r[1].targetInstances = 4)

\* C8 witness: a snapshot with pitSize 150 was analysed and the router
\* SCALE_UP decision asks for 4 instances.
C8Witness ==
    /\ Analysed /\ snapshot.pitSize = 150
    /\ \E i \in 1..Len(decisions) :
          /\ decisions[i].vnfType = "NDN_ROUTER"
          /\ decisions[i].action = "SCALE_UP"
          /\ decisions[i].targetInstances = 4

\* C9: the scale-up check covers every type: utilisation above 0.8 gives an
\* analyzer SCALE_UP decision, a cache hit ratio below 0.3 a cache SCALE_UP
\* decision.
C9EveryTypeScaled ==
    Analysed =>
        /\ snapshot.networkUtilization > 80 =>
               DecisionsFor("TRAFFIC_ANALYZER", "SCALE_UP") # << >>
        /\ snapshot.cacheHitRatio < 30 =>
               DecisionsFor("CACHE_OPTIMIZER", "SCALE_UP") # << >>

\* C10: an emergency count above zero gives exactly one decision for the
\* security type, a SCALE_UP of priority 1, whatever the other metrics; a
\* count of zero gives no decision for the security type.
C10EmergencyResponse ==
    Analysed =>
        LET sec == SelectSeq(decisions, LAMBDA d : d.vnfType = "SECURITY_VNF") IN
        /\ Len(sec) = (IF snapshot.emergencyMessages > 0 THEN 1 ELSE 0)
        /\ \A i \in 1..Len(sec) :
               sec[i].action = "SCALE_UP" /\ sec[i].priority = 1

\* C10 witness: a snapshot with three emergency messages and every other
\* metric below its trigger was analysed, and the only decision is the
\* security SCALE_UP of priority 1.
C10Witness ==
    /\ Analysed
    /\ snapshot.emergencyMessages = 3 /\ snapshot.pitSize = 0
    /\ snapshot.cacheHitRatio = 60 /\ snapshot.avgLatency = 0
    /\ Len(decisions) = 1
    /\ decisions[1].vnfType = "SECURITY_VNF"
    /\ decisions[1].action = "SCALE_UP" /\ decisions[1].priority = 1

\* C11: analyzeAndDecide emits exactly one cache OPTIMIZE decision, of
\* priority 3, when cacheHitRatio is below 0.5, and none otherwise (none at
\* exactly 0.5), whether or not a scale-up decision was emitted.
C11CacheOptimize ==
    Analysed =>
        LET o == SelectSeq(decisions, LAMBDA d : d.action = "OPTIMIZE") IN
        /\ Len(o) = (IF snapshot.cacheHitRatio < 50 THEN 1 ELSE 0)
        /\ \A i \in 1..Len(o) :
               o[i].vnfType = "CACHE_OPTIMIZER" /\ o[i].priority = 3
        /\ snapshot.cacheHitRatio = 50 => o = << >>

\* C11 witness: a snapshot with hit ratio 0.2 and pitSize 150 was analysed;
\* the list holds the router SCALE_UP and the cache OPTIMIZE of priority 3.
C11Witness ==
    /\ Analysed /\ snapshot.cacheHitRatio = 20 /\ snapshot.pitSize = 150
    /\ DecisionsFor("NDN_ROUTER", "SCALE_UP") # << >>
    /\ Len(DecisionsFor("CACHE_OPTIMIZER", "OPTIMIZE")) = 1
    /\ DecisionsFor("CACHE_OPTIMIZER", "OPTIMIZE")[1].priority = 3

\* C12: analyzeAndDecide emits a router MIGRATE decision exactly when the
\* latency is above 100 ms; its target location is the one the location rule
\* gives (EDGE_1 above 50 ms, else RSU_1, the same as a router SCALE_UP of
\* the same list), its priority 1 above 50 ms and 2 otherwise.
C12LatencyMigrate ==
    Analysed =>
        LET m == SelectSeq(decisions, LAMBDA d : d.action = "MIGRATE")
            up == DecisionsFor("NDN_ROUTER", "SCALE_UP") IN
        /\ Len(m) = (IF snapshot.avgLatency > 100 THEN 1 ELSE 0)
        /\ \A i \in 1..Len(m) :
               /\ m[i].vnfType = "NDN_ROUTER"
               /\ m[i].targetLocation =
                      (IF snapshot.avgLatency > 50 THEN "EDGE_1" ELSE "RSU_1")
               /\ up # << >> => m[i].targetLocation = up[1].targetLocation
               /\ m[i].priority = (IF snapshot.avgLatency > 50 THEN 1 ELSE 2)

\* C12 witness: a snapshot with latency 101 ms and pitSize 150 was analysed;
\* the router MIGRATE goes to EDGE_1 with priority 1, like the SCALE_UP.
C12Witness ==
    /\ Analysed /\ snapshot.avgLatency = 101 /\ snapshot.pitSize = 150
    /\ Len(DecisionsFor("NDN_ROUTER", "MIGRATE")) = 1
    /\ DecisionsFor("NDN_ROUTER", "MIGRATE")[1].targetLocation = "EDGE_1"
    /\ DecisionsFor("NDN_ROUTER", "MIGRATE")[1].priority = 1
    /\ DecisionsFor("NDN_ROUTER", "SCALE_UP")[1].targetLocation = "EDGE_1"

\* C14: every decision analyzeAndDecide emits carries the timestamp of the
\* snapshot it was computed from.
C14SnapshotTimestamp ==
    Analysed =>
        \A i \in 1..Len(decisions) : decisions[i].timestamp = snapshot.timestamp

\* C13: analyzeAndDecide is deterministic: the same snapshot evaluated against
\* the same inventory gives the same ordered list of decisions, every field
\* equal, whatever the session's current time and whatever was evaluated
\* before.  (The follower reports one snapshot throughout a behaviour.)
C13Deterministic ==
    [][(/\ lastMessage = "metrics" /\ lastMessage' = "metrics"
        /\ metricsLeft' < metricsLeft
        /\ vnfInstances = analysedInventory)
       => decisions' = decisions]_vars

\* C18: the performance counters count each emitted decision exactly once:
\* totalDecisions is the number of decisions emitted so far, scalingEvents the
\* number of scale-up decisions, migrationEvents the number of migrate
\* decisions, emergencyResponses the number of emergency decisions.
C18CountersMatchEmitted ==
    /\ perf.totalDecisions = emitted.totalDecisions
    /\ perf.scalingEvents = emitted.scalingEvents
    /\ perf.migrationEvents = emitted.migrationEvents
    /\ perf.emergencyResponses = emitted.emergencyResponses

\* C19: a malformed metrics message is evaluated as the zero-valued snapshot,
\* the receive loop keeps running and the follower connection stays open.
C19MalformedAsZero ==
    [][(lastMessage' = "malformed" /\ metricsLeft' < metricsLeft)
       => /\ decisions' = analyzeAndDecide(ZeroMetrics, lCurrentTime)
          /\ analysedInventory' = vnfInstances
          /\ followerSocket' = followerSocket
          /\ followerConnected' = followerConnected
          /\ leaderPc' = "top" /\ lRunning']_vars

\* The last operation on the inventory was an execution of one decision with
\* this action.
Executed(action) ==
    lastMessage = "execute" /\ Len(decisions) = 1 /\ decisions[1].action = action

\* C15: deployVNF always succeeds (the type gains one instance) and the new
\* instance's identifier was given to no instance before in the session, also
\* after scale-down removals; two live instances of a type never share an
\* identifier.
C15FreshIdentifiers ==
    [][/\ \A t \in VNFTypes :
            \A i \in 1..Len(vnfInstances'[t]) :
                i > Len(vnfInstances[t])
                    => vnfInstances'[t][i].instanceId \notin issuedIds
       /\ lastMessage' = "deploy" /\ callsLeft' < callsLeft
            => \E t \in InventoryTypes :
                   Len(vnfInstances'[t]) = Len(vnfInstances[t]) + 1
       /\ \A t \in VNFTypes :
            \A i, j \in 1..Len(vnfInstances'[t]) :
                i # j => vnfInstances'[t][i].instanceId
                             # vnfInstances'[t][j].instanceId]_vars

\* C16: executing a SCALE_DOWN removes exactly the most recently deployed
\* instance of the type (the last of its list), changes nothing when the type
\* has no instance, and never touches another type.
C16ScaleDownRemovesNewest ==
    [][(lastMessage' = "execute" /\ callsLeft' < callsLeft
        /\ decisions'[1].action = "SCALE_DOWN")
       => LET t == decisions'[1].vnfType
              old == vnfInstances[t]
              new == vnfInstances'[t] IN
          /\ old = << >> => vnfInstances' = vnfInstances
          /\ old # << >> =>
                /\ Len(new) = Len(old) - 1
                /\ \A i \in 1..Len(new) : new[i] = old[i]
          /\ \A u \in VNFTypes \ {t} : vnfInstances'[u] = vnfInstances[u]]_vars

\* C16 witness: a SCALE_DOWN was executed on a type holding two instances and
\* the older one is what remains.
C16Witness ==
    /\ Executed("SCALE_DOWN")
    /\ Len(analysedInventory[decisions[1].vnfType]) = 2
    /\ vnfInstances[decisions[1].vnfType]
           = <<analysedInventory[decisions[1].vnfType][1]>>
    /\ analysedInventory[decisions[1].vnfType][1]
           # analysedInventory[decisions[1].vnfType][2]

\* C17: executing a MIGRATE changes only the location of the first instance of
\* the type, to the decision's target location, keeping its identifier and
\* every other instance; with no instance of the type it changes nothing.
C17MigrateMovesFirst ==
    [][(lastMessage' = "execute" /\ callsLeft' < callsLeft
        /\ decisions'[1].action = "MIGRATE")
       => LET t == decisions'[1].vnfType
              old == vnfInstances[t]
              new == vnfInstances'[t] IN
          /\ old = << >> => vnfInstances' = vnfInstances
          /\ old # << >> =>
                /\ Len(new) = Len(old)
                /\ new[1] = [old[1] EXCEPT !.location = decisions'[1].targetLocation]
                /\ \A i \in 2..Len(new) : new[i] = old[i]
          /\ \A u \in VNFTypes \ {t} : vnfInstances'[u] = vnfInstances[u]]_vars

\* C17 witness: a MIGRATE was executed on a type holding two instances at one
\* location; the first is now at the target, the second where it was.
C17Witness ==
    /\ Executed("MIGRATE")
    /\ LET old == analysedInventory[decisions[1].vnfType]
           new == vnfInstances[decisions[1].vnfType] IN
       /\ Len(old) = 2 /\ Len(new) = 2
       /\ old[1].location = old[2].location
       /\ new[1].location = decisions[1].targetLocation
       /\ new[1].location # old[1].location
       /\ new[1].instanceId = old[1].instanceId
       /\ new[2] = old[2]

\* C20: the sync manager, reading zero bytes, records the peer closed (the
\* client socket is reset); a sync attempt made with the peer recorded closed
\* fails at the send: SyncToTime returns false (the time step fails) and the
\* manager's and the follower's current times are unchanged.
C20ClosedPeerFailsSync ==
    [][/\ (smRunning /\ clientSocket >= 0 /\ clientSocket' # clientSocket)
            => (~ns3Open /\ clientSocket' = NoSocket)
       /\ (pc = "followerSend" /\ pc' # pc /\ clientSocket < 0)
            => /\ pc' = "post" /\ ~stepSuccess'
               /\ pm'.failedSteps = pm.failedSteps + 1
               /\ smCurrentTime' = smCurrentTime
               /\ fCurrentTime' = fCurrentTime]_vars

\* C20 witness: after a first successful step the NS-3 process closed, the
\* manager recorded it, and the second sync attempt was refused at the send
\* with the manager's time still at the first step's.
C20Witness ==
    /\ syncRefused /\ pc = "post" /\ ~stepSuccess
    /\ clientSocket = NoSocket /\ ~ns3Open
    /\ fCurrentTime > 0 /\ smCurrentTime = fCurrentTime
    /\ smTargetTime > smCurrentTime

\* C21: wire round trip: once the receiving side has read all the bytes of a
\* message the other side's send routine wrote, the message its receive
\* routine returned has the kind, the timestamp and the payload of the
\* message sent.
C21WireRoundTrip ==
    (sent # << >> /\ received # << >> /\ wire = << >>)
        => /\ received[1].type = sent[1].message.type
           /\ received[1].timestamp = sent[1].message.timestamp
           /\ received[1].payload = sent[1].message.payload

\* C22: over one session the leader accepts one remote peer: once a peer has
\* been accepted the receive loop never goes into accept() again, not even
\* after that peer has disconnected.
C22SingleAccept ==
    acceptCount >= 1 => leaderPc # "accept"

\* C23: the follower's connect routine makes at most 10 connection attempts,
\* sleeps 2 seconds after each failed attempt, returns success at the first
\* attempt that connects, and returns failure, the follower marked not
\* connected, once the tenth attempt has failed.
C23BoundedConnect ==
    /\ connAttempts <= ConnectMaxAttempts
    /\ connPc \in {"idle", "attempt"}
           => connDelay = ConnectDelaySeconds * connAttempts
    /\ connPc \in {"sleep", "connected"}
           => /\ connAttempts >= 1
              /\ connDelay = ConnectDelaySeconds * (connAttempts - 1)
    /\ connPc = "connected" => MarkedConnected
    /\ connPc = "failed"
           => /\ connAttempts \in {0, ConnectMaxAttempts}
              /\ connDelay = ConnectDelaySeconds * connAttempts
              /\ ~MarkedConnected
    /\ connPc # "connected" => ~scriptConnected

\* C23 witness: ten attempts failed, 20 seconds slept, the routine returned
\* false and the follower is marked not connected.
C23Witness ==
    /\ connPc = "failed" /\ connAttempts = 10 /\ connDelay = 20
    /\ ~MarkedConnected


\* C24: once stop() has returned on an initialised session, its sockets are closed: shutdown
\* has been invoked on the follower and on the leader (the leader no longer
\* runs, its server socket and follower socket are closed, and the sync
\* manager's sockets are closed), also when stop() is called after run()
\* has returned.
C24StopShutsDownBoth ==
    (stopPc = "done" /\ initialized) =>
        /\ ~lRunning /\ ~serverSocket /\ followerSocket = NoSocket
        /\ ~smServerSocket /\ clientSocket = NoSocket

\* The steps of the thread inside LeaderFollowerSynchronizer::run: the loop
\* test, executeTimeStep (each wait in it ends by its timeout at the latest)
\* and the rest of the loop body.
RunThread ==
    \/ RunLoopCheck
    \/ LeaderStepSend \/ LeaderStepWait \/ LeaderStepAck
    \/ FollowerStepSend \/ FollowerStepWait
    \/ ExchangeVehicleData \/ RunIterationEnd

\* A session that nobody stops and whose peers do not hang up: initialize(),
\* then run(), beside the two receive threads and the peers' sends.
NextRun ==
    \/ InitLeaderStart \/ InitLeaderFinish \/ InitFollower \/ InitVerify
    \/ RunStart \/ RunThread
    \/ LeaderLoopTop \/ LeaderAccept \/ LeaderReceive
    \/ SMLoopTop \/ SMAccept \/ SMReceive

\* That session with the thread that called run() scheduled again and again
\* (each of its steps moves pc).
SpecRunFair == Init /\ [][NextRun]_vars /\ WF_pc(RunThread)

\* C25: for a positive sync interval and a finite duration, run() always
\* terminates: whenever the thread is in the loop of run(), it later returns
\* from run(), whatever steps succeed or fail.
C25RunTerminates == (pc = "loop") ~> (pc = "returned")

\* run() has returned after steps that succeeded and steps that failed.
C25Witness ==
    /\ pc = "returned" /\ initialized
    /\ pm.successfulSteps >= 1 /\ pm.failedSteps >= 1

\* C26: no pipelining.  When the leader is about to send a time-sync, every
\* earlier step has either failed or completed its data exchange; and the
\* data exchange of a step happens only after the leader has received the
\* acknowledgment of that step's time-sync (its ack flag, cleared at the send,
\* is set).
C26NoPipelining ==
    /\ pc = "leaderSend" => pm.totalSteps = pm.successfulSteps + pm.failedSteps
    /\ pc = "exchange" => syncAckReceived

\* C27: in a failed time step no data is exchanged.  The follower's step is
\* invoked only when the leader's step has succeeded (its time has advanced to
\* the step's target); the transition that fails a step leaves both datasets
\* as they were and is not the exchange; and during run() a dataset changes
\* only in the exchange, which makes its step a successful one.
C27FailedStepNoExchange ==
    [][ /\ (pc # "followerSend" /\ pc' = "followerSend") =>
               (pc \in {"leaderWait", "leaderAck"} /\ lCurrentTime' = nextTime)
        /\ (pc # "post" /\ pc' = "post" /\ ~stepSuccess') =>
               (pc # "exchange" /\ UNCHANGED <<lVehicles, fVehicles, lastExchange>>)
        /\ (running /\ <<lVehicles, fVehicles, lastExchange>>' #
                       <<lVehicles, fVehicles, lastExchange>>) =>
               (pc = "exchange" /\ pc' = "post" /\ stepSuccess') ]_vars

\* A step has failed in the follower's step after the leader's step
\* succeeded, the two datasets still different and never exchanged.
C27Witness ==
    /\ pc = "post" /\ ~stepSuccess /\ pm.failedSteps >= 1
    /\ lCurrentTime > 0 /\ lastExchange.n = 0
    /\ lVehicles # fVehicles

\* C28: the acknowledgment that satisfies a step's wait answers that step's
\* time-sync.  The peer answers time-syncs in the order it received them, so
\* an acknowledgment taken in while a step waits must be the last one the peer
\* owes: none for the step's own time-sync is still to come.
C28AckAnswersThisStep ==
    [][ (/\ pc \in {"leaderWait", "leaderAck"}
         /\ peerOwes' = peerOwes - 1
         /\ syncAckReceived') => peerOwes' = 0 ]_vars

\* C29: the leader's ack flag is set only when a time-sync acknowledgment has
\* been received.  A turn of the receive loop that takes in no acknowledgment
\* (no data, undecodable data or a message of another kind) neither sets the
\* flag nor gives up the follower connection.
C29AckFlagOnlyOnAck ==
    [][ (/\ leaderPc = "top" /\ leaderPc' = "top"
         /\ lRunning /\ followerSocket >= 0
         /\ pc' = pc /\ stopPc' = stopPc
         /\ peerOwes' >= peerOwes) =>
            /\ syncAckReceived' => syncAckReceived
            /\ followerSocket' = followerSocket ]_vars

\* C30: once OMNeTOrchestrator::initialize() has returned true (the leader is
\* initialised and running), the receive loop is running: its thread has not
\* left the loop, and does not leave it before shutdown clears running_.
C30ReceiveLoopRuns ==
    (lInitialized /\ lRunning) => leaderPc \in {"top", "accept"}

\* The steps of the thread that called stop(), and of the sync manager's
\* communication thread.
StopThread == StopBegin \/ StopJoin \/ StopLeaderShutdown
SMThread == SMLoopTop \/ SMAccept \/ SMReceive

\* The program with the stopping thread and the communication thread scheduled
\* again and again.
SpecStopFair ==
    Init /\ [][Next]_vars /\ WF_stopPc(StopThread) /\ WF_vars(SMThread)

\* C32: ExternalSyncManager::Shutdown always terminates: once the stopping
\* thread waits in the join for the communication thread, the join returns,
\* also when no peer ever connected and that thread waits in accept().
C32ShutdownTerminates == (stopPc = "joining") ~> (stopPc # "joining")

\* The rule a decision of analyzeAndDecide comes from, numbered in the order
\* [scale-up, optimize, migrate, emergency scale-up] (0: none of them).
RuleOf(d) ==
    CASE d.vnfType = "NDN_ROUTER" /\ d.action = "SCALE_UP" -> 1
      [] d.vnfType = "CACHE_OPTIMIZER" /\ d.action = "OPTIMIZE" -> 2
      [] d.vnfType = "NDN_ROUTER" /\ d.action = "MIGRATE" -> 3
      [] d.vnfType = "SECURITY_VNF" /\ d.action = "SCALE_UP" -> 4
      [] OTHER -> 0

FiredRules(ds) == {RuleOf(ds[i]) : i \in 1..Len(ds)}

\* The sets of rules that fire together for some snapshot.
ProducedCombinations ==
    {FiredRules(analyzeAndDecide(m, 0)) : m \in MetricsInputs}

\* C33: the list analyzeAndDecide returned holds decisions of the four rules
\* in the order scale-up, optimize, migrate, emergency scale-up, at most one
\* per rule; and each of the 16 sets of rules is the set that fires for some
\* snapshot.
C33OrderedIndependentRules ==
    /\ lastMessage = "metrics" =>
          /\ \A i \in 1..Len(decisions) : RuleOf(decisions[i]) \in 1..4
          /\ \A i, j \in 1..Len(decisions) :
                i < j => RuleOf(decisions[i]) < RuleOf(decisions[j])
    /\ ProducedCombinations = SUBSET (1..4)

\* A snapshot for which the four rules fired.
C33Witness ==
    /\ lastMessage = "metrics" /\ decisions = analyzeAndDecide(snapshot, lCurrentTime)
    /\ FiredRules(decisions) = 1..4

\* One list is another with one instance appended, with its last instance
\* removed, or with its first instance moved to another location.
Appended(old, new) ==
    Len(new) > Len(old) /\ \A i \in 1..Len(old) : new[i] = old[i]
LastRemoved(old, new) ==
    Len(new) = Len(old) - 1 /\ \A i \in 1..Len(new) : new[i] = old[i]
FirstMoved(old, new) ==
    /\ Len(new) = Len(old) /\ Len(old) > 0
    /\ new[1] = [old[1] EXCEPT !.location = new[1].location]
    /\ \A i \in 2..Len(old) : new[i] = old[i]

\* C34: the inventory changes only through deploy, scale-down and migrate.
\* Evaluating a snapshot, and executing an OPTIMIZE or an unrecognised action,
\* leave every instance list as it was; a list that changes has gained
\* instances at its end in a deployment (deployVNF or SCALE_UP), lost its last
\* instance in a SCALE_DOWN, or had its first instance moved in a MIGRATE.
C34InventoryFrame ==
    [][ /\ lastMessage' = "analyse" => vnfInstances' = vnfInstances
        /\ (lastMessage' = "execute" /\ decisions'[1].action \in {"OPTIMIZE", "RESTART"})
               => vnfInstances' = vnfInstances
        /\ \A t \in VNFTypes :
              vnfInstances'[t] # vnfInstances[t] =>
                 \/ /\ lastMessage' = "deploy"
                    /\ Appended(vnfInstances[t], vnfInstances'[t])
                 \/ /\ lastMessage' = "execute" /\ decisions'[1].vnfType = t
                    /\ \/ /\ decisions'[1].action = "SCALE_UP"
                          /\ Appended(vnfInstances[t], vnfInstances'[t])
                       \/ /\ decisions'[1].action = "SCALE_DOWN"
                          /\ LastRemoved(vnfInstances[t], vnfInstances'[t])
                       \/ /\ decisions'[1].action = "MIGRATE"
                          /\ FirstMoved(vnfInstances[t], vnfInstances'[t]) ]_vars

\* A snapshot has been evaluated with decisions returned, an instance has
\* been added, and the last call executed an unrecognised action.
C34Witness ==
    /\ emitted.totalDecisions >= 1
    /\ \E t \in VNFTypes : Len(vnfInstances[t]) >= 2
    /\ lastMessage = "execute" /\ decisions[1].action = "RESTART"

\* The largest number calculateRequiredInstances returns for the type.
InstanceCap(type) ==
    CASE type = "NDN_ROUTER" -> 5
      [] type \in {"TRAFFIC_ANALYZER", "SECURITY_VNF"} -> 3
      [] OTHER -> 1

\* C36: executing a SCALE_UP with targetInstances = n adds exactly n
\* instances of the type to those already deployed (the others kept, in
\* place), and touches no other type.
C36ScaleUpAdds ==
    [][(lastMessage' = "execute" /\ callsLeft' < callsLeft
        /\ decisions'[1].action = "SCALE_UP")
       => LET t == decisions'[1].vnfType IN
          /\ Len(vnfInstances'[t]) = Len(vnfInstances[t]) + decisions'[1].targetInstances
          /\ \A i \in 1..Len(vnfInstances[t]) : vnfInstances'[t][i] = vnfInstances[t][i]
          /\ \A i \in (Len(vnfInstances[t]) + 1)..Len(vnfInstances'[t]) :
                /\ vnfInstances'[t][i].type = t
                /\ vnfInstances'[t][i].location = decisions'[1].targetLocation
          /\ \A u \in VNFTypes \ {t} : vnfInstances'[u] = vnfInstances[u]]_vars

\* A SCALE_UP of two routers was executed when the router type already held
\* its cap of instances, so the inventory has grown beyond the cap.
C36Witness ==
    /\ Executed("SCALE_UP") /\ decisions[1].targetInstances = 2
    /\ decisions[1].vnfType = "NDN_ROUTER"
    /\ Len(analysedInventory[decisions[1].vnfType]) >= InstanceCap(decisions[1].vnfType)
    /\ Len(vnfInstances[decisions[1].vnfType]) =
           Len(analysedInventory[decisions[1].vnfType]) + 2

\* C37: every MIGRATE decision analyzeAndDecide emits has priority 1 and the
\* target location EDGE_1.
C37MigrateAlwaysUrgent ==
    Analysed =>
        \A i \in 1..Len(decisions) :
            decisions[i].action = "MIGRATE" =>
                /\ decisions[i].priority = 1
                /\ decisions[i].targetLocation = "EDGE_1"

\* A MIGRATE decision was emitted for a latency just above the migration
\* threshold and for no other rule.
C37Witness ==
    /\ Analysed /\ snapshot.avgLatency = 101
    /\ Len(decisions) = 1 /\ decisions[1].action = "MIGRATE"
    /\ decisions[1].priority = 1 /\ decisions[1].targetLocation = "EDGE_1"

\* C38: evaluating the all-zero snapshot emits exactly one decision, the
\* cache OPTIMIZE with priority 3; the evaluation leaves the inventory as it
\* was, and so does the execution of the list it returned.
C38ZeroSnapshotOptimizes ==
    [][(lastMessage' = "analyse" /\ callsLeft' < callsLeft /\ snapshot = ZeroMetrics)
       => /\ Len(decisions') = 1
          /\ decisions'[1].vnfType = "CACHE_OPTIMIZER"
          /\ decisions'[1].action = "OPTIMIZE"
          /\ decisions'[1].priority = 3
          /\ vnfInstances' = vnfInstances
          /\ executeNFVDecisions([inst |-> vnfInstances', perf |-> perf'],
                                 decisions').inst = vnfInstances']_vars

\* The all-zero snapshot has been evaluated on an inventory that holds more
\* than the initial deployment.
C38Witness ==
    /\ snapshot = ZeroMetrics /\ lastMessage = "analyse"
    /\ Len(decisions) = 1 /\ decisions[1].action = "OPTIMIZE"
    /\ \E t \in VNFTypes : Len(vnfInstances[t]) >= 2

\* C39: at the end of every iteration of run() (the thread is back at the loop
\* test, or has left the loop), totalSteps = successfulSteps + failedSteps and
\* currentTime = successfulSteps * syncInterval.
C39CountersAgree ==
    pc \in {"loop", "returned"} =>
        /\ pm.totalSteps = pm.successfulSteps + pm.failedSteps
        /\ currentTime = pm.successfulSteps * syncInterval

\* run() has returned after two successful steps and a failed one.
C39Witness ==
    /\ pc = "returned" /\ pm.successfulSteps = 2 /\ pm.failedSteps = 1
    /\ pm.totalSteps = 3 /\ currentTime = 2 * syncInterval

\* ------------------------- handleFollowerMetrics, statement by statement
\* The inventory handleFollowerMetrics leaves behind for a list of decisions.
InventoryAfter(inst, ds) ==
    executeNFVDecisions([inst |-> inst, perf |-> perf], ds).inst

\* A handler that sends the commands of a batch before executing it: the lock
\* is taken and the metrics analysed, the inventory is not yet touched.
HandleMetricsBeginSendFirst ==
    /\ leaderPc = "top"
    /\ lRunning /\ followerSocket >= 0 /\ peerOpen
    /\ metricsLeft > 0
    /\ nfvStateMutex = "free"
    /\ nfvStateMutex' = "receive"
    /\ leaderPc' = "handling"
    /\ metricsLeft' = metricsLeft - 1
    /\ decisions' = analyzeAndDecide(snapshot, lCurrentTime)
    /\ perf' = analyzeCounters(perf, snapshot, lCurrentTime)
    /\ lastMessage' = "metrics"
    /\ analysedInventory' = vnfInstances
    /\ emitted' = CountEmitted(emitted, decisions')
    /\ toSend' = decisions'
    /\ commands' = << >>
    /\ UNCHANGED <<syncVars, histVars, scriptVars, closeVars, stopPc, stopRequested,
                   lCurrentTime, lRunning, lInitialized, serverSocket,
                   followerSocket, followerConnected, syncAckReceived, lVehicles,
                   nextTime, acceptCount, peerOpen, peerOwes, snapshot,
                   callsLeft, vnfInstances, issuedIds, followerVars>>

\* leaderLoop receives NDN_METRICS and enters handleFollowerMetrics: the
\* lock_guard takes nfvStateMutex_, analyzeAndDecide returns the batch and
\* executeNFVDecisions runs over the whole of it; the loop over the decisions
\* to send has not started.
HandleMetricsBegin ==
    /\ leaderPc = "top"
    /\ lRunning /\ followerSocket >= 0 /\ peerOpen
    /\ metricsLeft > 0
    /\ nfvStateMutex = "free"
    /\ nfvStateMutex' = "receive"
    /\ leaderPc' = "handling"
    /\ metricsLeft' = metricsLeft - 1
    /\ decisions' = analyzeAndDecide(snapshot, lCurrentTime)
    /\ LET st == executeNFVDecisions(
                     [inst |-> vnfInstances,
                      perf |-> analyzeCounters(perf, snapshot, lCurrentTime)],
                     decisions')
       IN /\ vnfInstances' = st.inst
          /\ perf' = st.perf
    /\ lastMessage' = "metrics"
    /\ analysedInventory' = vnfInstances
    /\ emitted' = CountEmitted(emitted, decisions')
    /\ issuedIds' = issuedIds \cup IdsOf(vnfInstances')
    /\ toSend' = decisions'
    /\ commands' = << >>
    /\ UNCHANGED <<syncVars, histVars, scriptVars, closeVars, stopPc, stopRequested,
                   lCurrentTime, lRunning, lInitialized, serverSocket,
                   followerSocket, followerConnected, syncAckReceived, lVehicles,
                   nextTime, acceptCount, peerOpen, peerOwes, snapshot,
                   callsLeft, followerVars>>

\* One turn of the loop over the decisions: the message is built (type
\* NFV_COMMAND, the leader's time, the decision's priority, the decision as
\* payload) and, with a follower socket, sent.  The command is recorded with
\* the inventory it was sent under.
HandleMetricsSend ==
    /\ leaderPc = "handling"
    /\ toSend # << >>
    /\ LET decision == Head(toSend)
           message == [type |-> "NFV_COMMAND", timestamp |-> lCurrentTime,
                       priority |-> decision.priority, payload |-> decision,
                       inventory |-> vnfInstances]
       IN commands' = IF followerSocket >= 0 THEN Append(commands, message)
                      ELSE commands
    /\ toSend' = Tail(toSend)
    /\ UNCHANGED <<syncVars, histVars, scriptVars, closeVars, stopPc, stopRequested,
                   leaderVars, nfvVars, followerVars, nfvStateMutex>>

\* handleFollowerMetrics returns: the lock_guard releases nfvStateMutex_ and
\* leaderLoop goes back to the top of its loop.
HandleMetricsEnd ==
    /\ leaderPc = "handling"
    /\ toSend = << >>
    /\ nfvStateMutex' = "free"
    /\ leaderPc' = "top"
    /\ UNCHANGED <<syncVars, histVars, scriptVars, closeVars, stopPc, stopRequested,
                   lCurrentTime, lRunning, lInitialized, serverSocket,
                   followerSocket, followerConnected, syncAckReceived, lVehicles,
                   nextTime, acceptCount, peerOpen, peerOwes, nfvVars,
                   followerVars, toSend, commands>>

\* The tail of OMNeTOrchestrator::step after the acknowledgment has arrived:
\* updatePerformanceMetrics is entered, totalDecisions is incremented, and
\* the walk over vnfInstances_ begins.  No lock is taken.
StepUpdateBegin ==
    /\ pc = "leaderAck"
    /\ syncAckReceived
    /\ perf' = [perf EXCEPT !.totalDecisions = @ + 1]
    /\ pc' = "leaderUpdate"
    /\ UNCHANGED <<syncInterval, simulationTime, currentTime, running, initialized,
                   pm, stepSuccess, runResult, histVars, scriptVars, detailVars,
                   stopPc, stopRequested, leaderVars, vnfInstances, snapshot,
                   metricsLeft, decisions, callsLeft, engineHist, followerVars>>

\* The walk over vnfInstances_ ends, updatePerformanceMetrics returns and
\* step sets currentTime_ = nextTime.
StepUpdateEnd ==
    /\ pc = "leaderUpdate"
    /\ lCurrentTime' = nextTime
    /\ pc' = "followerSend"
    /\ UNCHANGED <<syncInterval, simulationTime, currentTime, running, initialized,
                   pm, stepSuccess, runResult, histVars, scriptVars, detailVars,
                   stopPc, stopRequested, lRunning, lInitialized, serverSocket,
                   followerSocket, followerConnected, syncAckReceived, lVehicles,
                   nextTime, leaderPc, acceptCount, peerOpen, peerOwes, nfvVars,
                   followerVars>>

\* The handler and the step side by side: the session of InitLeaderSession
\* with the metrics handler and the end of the leader's step taken statement
\* by statement.
NextHandler ==
    \/ HandleMetricsBegin \/ HandleMetricsSend \/ HandleMetricsEnd
    \/ LeaderStepSend \/ LeaderStepWait \/ LeaderReceive
    \/ StepUpdateBegin \/ StepUpdateEnd

SpecHandler == InitLeaderSession /\ [][NextHandler]_vars

\* C35: when metrics arrive, the inventory holds the effect of every decision
\* of the batch before the first command of the batch is sent, and the
\* commands go out in the order analyzeAndDecide returned the decisions,
\* each carrying its own decision's priority.
C35BatchExecutedBeforeSent ==
    /\ Len(commands) + Len(toSend) = Len(decisions)
    /\ toSend = SubSeq(decisions, Len(commands) + 1, Len(decisions))
    /\ \A k \in 1..Len(commands) :
          /\ commands[k].type = "NFV_COMMAND"
          /\ commands[k].payload = decisions[k]
          /\ commands[k].priority = decisions[k].priority
          /\ commands[k].inventory = InventoryAfter(analysedInventory, decisions)

C35Witness ==
    /\ leaderPc = "handling" /\ toSend = << >>
    /\ Len(commands) >= 2
    /\ commands[1].priority # commands[2].priority
    /\ commands[1].payload.action # commands[2].payload.action
    /\ vnfInstances # analysedInventory
    /\ InventoryAfter(analysedInventory, << decisions[1] >>) # vnfInstances

\* C31: a thread reading or writing the inventory or the decision counters
\* holds nfvStateMutex_, so the step thread and the receive thread are never
\* inside them together.
AccessingThreads ==
    (IF leaderPc = "handling" THEN {"receive"} ELSE {})
    \cup (IF pc = "leaderUpdate" THEN {"step"} ELSE {})

C31InventoryLocked ==
    /\ \A t \in AccessingThreads : nfvStateMutex = t
    /\ Cardinality(AccessingThreads) <= 1

\* --------------- OMNeTOrchestrator::shutdown against leaderLoop, by statement
\* close(followerSocket_): the member is read at the call; close(-1) closes
\* nothing.
CloseFollowerSocket == closes' = IF followerSocket >= 0 THEN closes + 1 ELSE closes

\* shutdown(): running_ = false.
ShutdownBegin ==
    /\ shutPc = "idle"
    /\ lRunning' = FALSE
    /\ shutPc' = "testFollower"
    /\ UNCHANGED <<syncVars, histVars, scriptVars, handlerVars, stopPc, stopRequested,
                   lCurrentTime, lInitialized, serverSocket, followerSocket,
                   followerConnected, syncAckReceived, lVehicles, nextTime,
                   leaderPc, acceptCount, peerOpen, peerOwes, nfvVars,
                   followerVars, loopFd, closes, usedClosed>>

\* shutdown(): if (followerSocket_ >= 0)
ShutdownTestFollower ==
    /\ shutPc = "testFollower"
    /\ shutPc' = IF followerSocket >= 0 THEN "closeFollower" ELSE "server"
    /\ UNCHANGED <<syncVars, histVars, scriptVars, handlerVars, stopPc, stopRequested,
                   leaderVars, nfvVars, followerVars, loopFd, closes, usedClosed>>

\* shutdown(): close(followerSocket_); the peer's connection is gone.
ShutdownCloseFollower ==
    /\ shutPc = "closeFollower"
    /\ CloseFollowerSocket
    /\ peerOpen' = IF followerSocket >= 0 THEN FALSE ELSE peerOpen
    /\ peerOwes' = IF followerSocket >= 0 THEN 0 ELSE peerOwes
    /\ shutPc' = "resetFollower"
    /\ UNCHANGED <<syncVars, histVars, scriptVars, handlerVars, stopPc, stopRequested,
                   lCurrentTime, lRunning, lInitialized, serverSocket,
                   followerSocket, followerConnected, syncAckReceived, lVehicles,
                   nextTime, leaderPc, acceptCount, nfvVars, followerVars,
                   loopFd, usedClosed>>

\* shutdown(): followerSocket_ = -1.
ShutdownResetFollower ==
    /\ shutPc = "resetFollower"
    /\ followerSocket' = NoSocket
    /\ shutPc' = "server"
    /\ UNCHANGED <<syncVars, histVars, scriptVars, handlerVars, stopPc, stopRequested,
                   lCurrentTime, lRunning, lInitialized, serverSocket,
                   followerConnected, syncAckReceived, lVehicles, nextTime,
                   leaderPc, acceptCount, peerOpen, peerOwes, nfvVars,
                   followerVars, loopFd, closes, usedClosed>>

\* shutdown(): the server socket is closed and reset; shutdown returns without
\* joining the receive thread.
ShutdownServer ==
    /\ shutPc = "server"
    /\ serverSocket' = FALSE
    /\ shutPc' = "done"
    /\ UNCHANGED <<syncVars, histVars, scriptVars, handlerVars, stopPc, stopRequested,
                   lCurrentTime, lRunning, lInitialized, followerSocket,
                   followerConnected, syncAckReceived, lVehicles, nextTime,
                   leaderPc, acceptCount, peerOpen, peerOwes, nfvVars,
                   followerVars, loopFd, closes, usedClosed>>

\* leaderLoop: while (running_)
LoopWhile ==
    /\ leaderPc = "top"
    /\ leaderPc' = IF lRunning THEN "test" ELSE "exitTest"
    /\ UNCHANGED <<syncVars, histVars, scriptVars, detailVars, stopPc, stopRequested,
                   lCurrentTime, lRunning, lInitialized, serverSocket,
                   followerSocket, followerConnected, syncAckReceived, lVehicles,
                   nextTime, acceptCount, peerOpen, peerOwes, nfvVars,
                   followerVars>>

\* leaderLoop: if (followerSocket_ < 0) the thread goes into accept(),
\* otherwise on to the receive.
LoopTestSocket ==
    /\ leaderPc = "test"
    /\ leaderPc' = IF followerSocket < 0 THEN "accept" ELSE "call"
    /\ UNCHANGED <<syncVars, histVars, scriptVars, detailVars, stopPc, stopRequested,
                   lCurrentTime, lRunning, lInitialized, serverSocket,
                   followerSocket, followerConnected, syncAckReceived, lVehicles,
                   nextTime, acceptCount, peerOpen, peerOwes, nfvVars,
                   followerVars>>

\* leaderLoop: accept() on a closed server socket fails, followerSocket_ takes
\* its -1 and the loop continues.  (On an open one, with no further peer, the
\* thread stays blocked.)
LoopAcceptFails ==
    /\ leaderPc = "accept"
    /\ ~serverSocket
    /\ followerSocket' = NoSocket
    /\ leaderPc' = "top"
    /\ UNCHANGED <<syncVars, histVars, scriptVars, detailVars, stopPc, stopRequested,
                   lCurrentTime, lRunning, lInitialized, serverSocket,
                   followerConnected, syncAckReceived, lVehicles, nextTime,
                   acceptCount, peerOpen, peerOwes, nfvVars, followerVars>>

\* leaderLoop: receiveMessage(followerSocket_) is called; the member is read
\* into the argument.
LoopCall ==
    /\ leaderPc = "call"
    /\ loopFd' = followerSocket
    /\ leaderPc' = "recv"
    /\ UNCHANGED <<syncVars, histVars, scriptVars, handlerVars, stopPc, stopRequested,
                   lCurrentTime, lRunning, lInitialized, serverSocket,
                   followerSocket, followerConnected, syncAckReceived, lVehicles,
                   nextTime, acceptCount, peerOpen, peerOwes, nfvVars,
                   followerVars, shutPc, closes, usedClosed>>

\* leaderLoop: recv() runs on the descriptor passed.  From an open connection
\* it may bring the follower's acknowledgment or a text whose parsing throws;
\* otherwise no kind is assigned and the switch takes any branch.  A
\* descriptor already closed is used after its close.
LoopRecv ==
    /\ leaderPc = "recv"
    /\ usedClosed' = (usedClosed \/ (loopFd >= 0 /\ closes > 0))
    /\ \/ /\ loopFd >= 0 /\ closes = 0 /\ peerOwes > 0
          /\ syncAckReceived' = TRUE
          /\ peerOwes' = peerOwes - 1
          /\ leaderPc' = "top"
       \/ /\ \E ty \in UnassignedTypes :
                syncAckReceived' = IF ty = "TIME_SYNC" THEN TRUE
                                   ELSE syncAckReceived
          /\ leaderPc' = "top"
          /\ UNCHANGED peerOwes
       \/ /\ loopFd >= 0 /\ closes = 0 /\ peerOpen
          /\ leaderPc' = "catch"
          /\ UNCHANGED <<syncAckReceived, peerOwes>>
    /\ UNCHANGED <<syncVars, histVars, scriptVars, handlerVars, stopPc, stopRequested,
                   lCurrentTime, lRunning, lInitialized, serverSocket,
                   followerSocket, followerConnected, lVehicles, nextTime,
                   acceptCount, peerOpen, nfvVars, followerVars, shutPc,
                   loopFd, closes>>

\* leaderLoop, catch: if (running_)
LoopCatch ==
    /\ leaderPc = "catch"
    /\ leaderPc' = IF lRunning THEN "catchClose" ELSE "top"
    /\ UNCHANGED <<syncVars, histVars, scriptVars, detailVars, stopPc, stopRequested,
                   lCurrentTime, lRunning, lInitialized, serverSocket,
                   followerSocket, followerConnected, syncAckReceived, lVehicles,
                   nextTime, acceptCount, peerOpen, peerOwes, nfvVars,
                   followerVars>>

\* leaderLoop, catch: close(followerSocket_)
LoopCatchClose ==
    /\ leaderPc = "catchClose"
    /\ CloseFollowerSocket
    /\ peerOpen' = IF followerSocket >= 0 THEN FALSE ELSE peerOpen
    /\ peerOwes' = IF followerSocket >= 0 THEN 0 ELSE peerOwes
    /\ leaderPc' = "catchReset"
    /\ UNCHANGED <<syncVars, histVars, scriptVars, handlerVars, stopPc, stopRequested,
                   lCurrentTime, lRunning, lInitialized, serverSocket,
                   followerSocket, followerConnected, syncAckReceived, lVehicles,
                   nextTime, acceptCount, nfvVars, followerVars, shutPc, loopFd,
                   usedClosed>>

\* leaderLoop, catch: followerSocket_ = -1; followerConnected_ = false.
LoopCatchReset ==
    /\ leaderPc = "catchReset"
    /\ followerSocket' = NoSocket
    /\ followerConnected' = FALSE
    /\ leaderPc' = "top"
    /\ UNCHANGED <<syncVars, histVars, scriptVars, detailVars, stopPc, stopRequested,
                   lCurrentTime, lRunning, lInitialized, serverSocket,
                   syncAckReceived, lVehicles, nextTime, acceptCount, peerOpen,
                   peerOwes, nfvVars, followerVars>>

\* leaderLoop, after the loop: if (followerSocket_ >= 0)
LoopExitTest ==
    /\ leaderPc = "exitTest"
    /\ leaderPc' = IF followerSocket >= 0 THEN "exitClose" ELSE "ended"
    /\ UNCHANGED <<syncVars, histVars, scriptVars, detailVars, stopPc, stopRequested,
                   lCurrentTime, lRunning, lInitialized, serverSocket,
                   followerSocket, followerConnected, syncAckReceived, lVehicles,
                   nextTime, acceptCount, peerOpen, peerOwes, nfvVars,
                   followerVars>>

\* leaderLoop, after the loop: close(followerSocket_)
LoopExitClose ==
    /\ leaderPc = "exitClose"
    /\ CloseFollowerSocket
    /\ peerOpen' = IF followerSocket >= 0 THEN FALSE ELSE peerOpen
    /\ peerOwes' = IF followerSocket >= 0 THEN 0 ELSE peerOwes
    /\ leaderPc' = "exitReset"
    /\ UNCHANGED <<syncVars, histVars, scriptVars, handlerVars, stopPc, stopRequested,
                   lCurrentTime, lRunning, lInitialized, serverSocket,
                   followerSocket, followerConnected, syncAckReceived, lVehicles,
                   nextTime, acceptCount, nfvVars, followerVars, shutPc, loopFd,
                   usedClosed>>

\* leaderLoop, after the loop: followerSocket_ = -1; the thread ends.
LoopExitReset ==
    /\ leaderPc = "exitReset"
    /\ followerSocket' = NoSocket
    /\ leaderPc' = "ended"
    /\ UNCHANGED <<syncVars, histVars, scriptVars, detailVars, stopPc, stopRequested,
                   lCurrentTime, lRunning, lInitialized, serverSocket,
                   followerConnected, syncAckReceived, lVehicles, nextTime,
                   acceptCount, peerOpen, peerOwes, nfvVars, followerVars>>

\* A leader with its follower connected: the receive thread at the top of its
\* loop, a time-sync command answered or not yet, nobody inside shutdown().
InitClose ==
    /\ syncInterval = 1 /\ simulationTime = 1
    /\ snapshot = ZeroMetrics /\ metricsLeft = 0 /\ callsLeft = 0
    /\ SynchronizerConstructed /\ pc = "idle"
    /\ lCurrentTime = 0 /\ lRunning = TRUE /\ lInitialized = TRUE
    /\ serverSocket = TRUE /\ followerSocket = 1
    /\ followerConnected = TRUE /\ syncAckReceived = FALSE
    /\ lVehicles = LeaderOwnVehicles /\ nextTime = 0 /\ leaderPc = "top"
    /\ acceptCount = 1 /\ peerOpen = TRUE /\ peerOwes \in {0, 1}
    /\ vnfInstances = InitialDeployment([t \in VNFTypes |-> << >>])
    /\ perf = [totalDecisions |-> 0, scalingEvents |-> 0, migrationEvents |-> 0,
               emergencyResponses |-> 0]
    /\ decisions = << >>
    /\ lastMessage = "none"
    /\ analysedInventory = [t \in VNFTypes |-> << >>]
    /\ emitted = [totalDecisions |-> 0, scalingEvents |-> 0, migrationEvents |-> 0,
                  emergencyResponses |-> 0]
    /\ issuedIds = IdsOf(vnfInstances)
    /\ FollowerConstructed
    /\ DetailConstructed
    /\ ScriptConstructed /\ connImpl = "CoSimCommunicator"

NextClose ==
    \/ ShutdownBegin \/ ShutdownTestFollower \/ ShutdownCloseFollower
    \/ ShutdownResetFollower \/ ShutdownServer
    \/ LoopWhile \/ LoopTestSocket \/ LoopAcceptFails \/ LoopCall \/ LoopRecv
    \/ LoopCatch \/ LoopCatchClose \/ LoopCatchReset
    \/ LoopExitTest \/ LoopExitClose \/ LoopExitReset

SpecClose == InitClose /\ [][NextClose]_vars

\* C40: whatever the interleaving of shutdown() with the receive loop, the
\* accepted follower socket is closed once, not twice, nothing receives on it
\* after its close, and when both have finished it has been closed.
C40ClosedOnceNeverReused ==
    /\ closes <= 1
    /\ ~usedClosed
    /\ (shutPc = "done" /\ leaderPc = "ended" => closes = 1)
=============================================================================
